---- MODULE Spec2Model ----
(***************************************************************************)
(* Letify-cz: the ingest -> match -> notify pipeline.                      *)
(*                                                                         *)
(* The database tables are modelled as sets of records, SQL statements as  *)
(* operators over them, and every handler of the scraper and the notifier  *)
(* as one action.  SQL NULL / Python None is the value NULL for text       *)
(* columns and NoInt for integer columns.  MD5 is modelled as injective:   *)
(* a digest is represented by the string that is hashed.                   *)
(***************************************************************************)
EXTENDS Integers, Sequences, FiniteSets, TLC

VARIABLES
    now,          \* wall clock (datetime.now() / SQL NOW()): seconds for the
                  \* scraper, hours for the notifier
    properties,   \* table properties: set of rows
    next_id,      \* properties.id SERIAL sequence
    lastCall,     \* history: the last completed save_listing call
    lastDups,     \* history: the last find_potential_duplicates call
    ncalls,       \* history: number of save_listing calls started
    callers,      \* concurrent save_listing callers (one connection each)
    users,        \* table telegram_users: user_id -> flags
    prefs,        \* table user_preferences: user_id -> row
    queue,        \* table notification_queue: set of rows
    history,      \* table notification_history: set of rows
    worker,       \* process_notification_queue: its position and locals
    delivered,    \* history: messages the chat transport accepted
    capHits,      \* history: entries found over the daily cap
    enqueued,     \* history: listings enqueued since users/preferences changed
    lastEnq,      \* history: the last add_matched_properties_to_queue call
    lastSend,     \* history: the last send_notification call that returned
    query_urls,   \* table query_urls
    scan_history, \* table scan_history
    stop_after_no_result,  \* the scraper's setting
    sched,        \* position of run_one_scan in its cycle
    lastScan,     \* history: the last query URL or (source, city) handled
    prev,         \* history: per source, the query URL handled before
    proxy_manager,  \* the scraper's ProxyManager object
    proxyLog,     \* history: the last fetch of a scan and the failure runs
    http,         \* EnhancedHttpClient.get: its position and locals
    httpLog,      \* history: the requests of the running get call
    scraper_loop,   \* scraper process: run_continuous and its stop event
    notifier_main   \* notifier process: main, its stop event and the delivery task

storeVars == <<properties, next_id, lastCall, lastDups, ncalls>>
notifyVars == <<users, prefs, queue, history, worker, delivered,
                capHits, enqueued, lastEnq, lastSend>>
runVars == <<http, httpLog, scraper_loop, notifier_main>>
schedVars == <<query_urls, scan_history, stop_after_no_result, sched,
               lastScan, prev, proxy_manager, proxyLog, runVars>>
vars == <<now, properties, next_id, lastCall, lastDups, ncalls, callers, users, prefs,
          queue, history, worker, delivered, capHits, enqueued, lastEnq, lastSend,
          query_urls, scan_history, stop_after_no_result, sched, lastScan, prev,
          proxy_manager, proxyLog, runVars>>

(***************************************************************************)
(* Bounds of the model                                                     *)
(***************************************************************************)
MaxTime  == 2      \* the clock runs 0..MaxTime
MaxCalls == 3      \* save_listing calls per behaviour
MaxHours == 24     \* the notifier's clock runs 0..MaxHours (hours)
HoursPerTick == 12 \* granularity of the notifier's clock

\* Settings read from the environment (config.py of the notifier)
MaxPerDay     == 1  \* MAX_NOTIFICATIONS_PER_USER_PER_DAY
BatchSize     == 2  \* NOTIFICATION_BATCH_SIZE
RetryAttempts == 2  \* NOTIFICATION_RETRY_ATTEMPTS

DayHours == 24     \* INTERVAL '24 hours'

MaxSeconds     == 5    \* the scraper's clock runs 0..MaxSeconds (seconds)
SecondsPerTick == 5    \* granularity of the scraper's clock
Interval       == 5    \* self.interval, the --interval argument

NULL  == "NULL"    \* SQL NULL / Python None in a text column
NoInt == -1        \* SQL NULL / Python None in an integer column
NoRow == 0         \* fetchone() returned None (ids start at 1)

BOOL == {TRUE, FALSE}

(***************************************************************************)
(* PropertyListing and content hashes                                      *)
(***************************************************************************)
Sources   == {"funda", "pararius"}
SourceIds == {"1", NULL}
Urls      == {"u1"}
Prices    == {1000, 1200}

\* f"{x}" : None is rendered as the text None
PyStr(x) == IF x = NULL THEN "None" ELSE x

\* "|".join(parts) for a sequence of strings
RECURSIVE PipeJoin(_)
PipeJoin(parts) ==
    IF parts = << >> THEN ""
    ELSE IF Len(parts) = 1 THEN parts[1]
    ELSE parts[1] \o "|" \o PipeJoin(Tail(parts))

Truthy(x) == x # NULL /\ x # ""

\* PropertyListing.generate_property_hash: md5 of url|address|source_id|city
GenerateHash(l) ==
    PyStr(l.url) \o "|" \o PyStr(l.address) \o "|" \o PyStr(l.source_id)
        \o "|" \o PyStr(l.city)

\* <Scraper>._generate_property_hash: md5 of the "|"-joined truthy identifiers
ScraperHash(l) ==
    PipeJoin(
        (IF Truthy(l.url) THEN <<l.url>> ELSE << >>)
        \o (IF Truthy(l.source_id) THEN <<l.source_id>> ELSE << >>)
        \o (IF Truthy(l.address) THEN <<l.address>> ELSE << >>)
        \o (IF Truthy(l.city) THEN <<l.city>> ELSE << >>)
        \o (IF l.living_area # NoInt /\ l.living_area # 0
              THEN <<"area:" \o ToString(l.living_area)>> ELSE << >>)
        \o (IF l.price_numeric # NoInt /\ l.price_numeric # 0
              THEN <<"price:" \o ToString(l.price_numeric)>> ELSE << >>)
        \o (IF l.rooms # NoInt /\ l.rooms # 0
              THEN <<"rooms:" \o ToString(l.rooms)>> ELSE << >>))

\* A listing as an adapter builds it; property_hash is still unset.
CityListing(src, sid, url, city, price) ==
    [source |-> src, source_id |-> sid, url |-> url, address |-> "a",
     city |-> city, neighborhood |-> NULL, price_numeric |-> price,
     rooms |-> 2, living_area |-> 50, property_type |-> "APARTMENT",
     property_hash |-> NULL]

BareListing(src, sid, url, price) == CityListing(src, sid, url, "UTRECHT", price)

\* parse_search_page ends by setting listing.property_hash
WithScraperHash(l) == [l EXCEPT !.property_hash = ScraperHash(l)]

\* The payloads handed to save_listing: with or without a preset hash.
StoreListings ==
    LET bare == {BareListing(s, i, u, p) :
                    s \in Sources, i \in SourceIds, u \in Urls, p \in Prices}
    IN  bare \cup {WithScraperHash(l) : l \in bare}

(***************************************************************************)
(* PropertyDatabase.save_listing                                           *)
(***************************************************************************)
\* lines 34-35: the hash is generated only when the listing carries none
ListingHash(l) ==
    IF Truthy(l.property_hash) THEN l.property_hash ELSE GenerateHash(l)

\* SQL equality: NULL = x is never true
SqlEq(a, b) == a # NULL /\ b # NULL /\ a = b

\* a lookup by (source, source_id) alone, without the property_hash branch
SelectExisting_KeyOnly(props, l) ==
    {r \in props : SqlEq(r.source, l.source) /\ SqlEq(r.source_id, l.source_id)}

\* lines 38-41: WHERE (source = %s AND source_id = %s) OR property_hash = %s
SelectExisting(props, l) ==
    {r \in props :
        \/ (SqlEq(r.source, l.source) /\ SqlEq(r.source_id, l.source_id))
        \/ SqlEq(r.property_hash, ListingHash(l))}

\* a lookup that never finds the stored row
FetchOne_NeverFinds(props, l) == {NoRow}

\* line 42: fetchone() of a query without ORDER BY: any matching row, or None
FetchOne(props, l) ==
    IF SelectExisting(props, l) = {} THEN {NoRow}
    ELSE {r.id : r \in SelectExisting(props, l)}

\* UNIQUE (source, source_id) and property_hash UNIQUE; NULLs never conflict
UniqueOk(props) ==
    \A r1, r2 \in props :
        r1.id # r2.id =>
            /\ ~(SqlEq(r1.source, r2.source) /\ SqlEq(r1.source_id, r2.source_id))
            /\ ~SqlEq(r1.property_hash, r2.property_hash)

\* lines 47-118: UPDATE ... WHERE id; source and property_hash are not in the SET list
UpdatedRow(r, l, t) ==
    [r EXCEPT !.source_id = l.source_id, !.url = l.url, !.address = l.address,
              !.city = l.city, !.neighborhood = l.neighborhood,
              !.price_numeric = l.price_numeric, !.rooms = l.rooms,
              !.living_area = l.living_area, !.property_type = l.property_type,
              !.date_scraped = t]

\* lines 122-172: INSERT INTO properties
InsertedRow(id, l, t) ==
    [id |-> id, source |-> l.source, source_id |-> l.source_id,
     property_hash |-> ListingHash(l), url |-> l.url, address |-> l.address,
     city |-> l.city, neighborhood |-> l.neighborhood,
     price_numeric |-> l.price_numeric, rooms |-> l.rooms,
     living_area |-> l.living_area, property_type |-> l.property_type,
     date_scraped |-> t]

\* lines 44-179 for a SELECT result `found`: the table, the sequence and the
\* outcome: "new" (returns True), "updated" (returns False) or "error"
\* (a constraint violation: rollback, the exception is re-raised)
WriteListing(props, nid, l, found, t) ==
    IF found # NoRow
    THEN LET old  == CHOOSE r \in props : r.id = found
             upd  == (props \ {old}) \cup {UpdatedRow(old, l, t)}
         IN  IF UniqueOk(upd)
             THEN [props |-> upd, next_id |-> nid, ret |-> "updated"]
             ELSE [props |-> props, next_id |-> nid, ret |-> "error"]
    ELSE LET ins == props \cup {InsertedRow(nid, l, t)}
         IN  IF UniqueOk(ins)
             THEN [props |-> ins, next_id |-> nid + 1, ret |-> "new"]
             ELSE [props |-> props, next_id |-> nid + 1, ret |-> "error"]

(***************************************************************************)
(* Users, preferences and the match predicate                              *)
(***************************************************************************)
UserIds == {101, 102}

LowerAlpha == "abcdefghijklmnopqrstuvwxyz"
UpperAlpha == "ABCDEFGHIJKLMNOPQRSTUVWXYZ"

UpperChar(c) ==
    IF \E i \in 1..Len(LowerAlpha) : SubSeq(LowerAlpha, i, i) = c
    THEN LET i == CHOOSE i \in 1..Len(LowerAlpha) : SubSeq(LowerAlpha, i, i) = c
         IN  SubSeq(UpperAlpha, i, i)
    ELSE c

LowerChar(c) ==
    IF \E i \in 1..Len(UpperAlpha) : SubSeq(UpperAlpha, i, i) = c
    THEN LET i == CHOOSE i \in 1..Len(UpperAlpha) : SubSeq(UpperAlpha, i, i) = c
         IN  SubSeq(LowerAlpha, i, i)
    ELSE c

\* str.upper()
RECURSIVE PyUpper(_)
PyUpper(str) ==
    IF Len(str) = 0 THEN ""
    ELSE UpperChar(SubSeq(str, 1, 1)) \o PyUpper(SubSeq(str, 2, Len(str)))

RECURSIVE SqlLower(_)
SqlLower(str) ==
    IF Len(str) = 0 THEN ""
    ELSE LowerChar(SubSeq(str, 1, 1)) \o SqlLower(SubSeq(str, 2, Len(str)))

\* text ILIKE '%' || pat || '%' for a pattern without wildcards
ILikeContains(text, pat) ==
    \E i \in 1..(Len(text) + 1) :
        /\ i + Len(pat) - 1 <= Len(text)
        /\ SubSeq(SqlLower(text), i, i + Len(pat) - 1) = SqlLower(pat)

CitiesNull == {NULL}     \* user_preferences.cities IS NULL

TypesNone == <<NULL>>    \* preferences.get('property_type') is None

\* classes: history, the property classes the user selected in the chat
NoPrefs == [present |-> FALSE, cities |-> CitiesNull, min_price |-> NoInt,
            max_price |-> NoInt, min_rooms |-> NoInt, max_rooms |-> NoInt,
            property_type |-> NULL, min_area |-> NoInt, max_area |-> NoInt,
            neighborhood |-> NULL, classes |-> TypesNone]

\* ",".join(parts)
RECURSIVE CommaJoin(_)
CommaJoin(parts) ==
    IF parts = << >> THEN ""
    ELSE IF Len(parts) = 1 THEN parts[1]
    ELSE parts[1] \o "," \o CommaJoin(Tail(parts))

\* a Python list of str bound to the parameter of the TEXT column
\* property_type: the driver sends an array literal, either untyped, which
\* the column keeps as text, or typed text[], which the INSERT rejects
ListBindings == {"untyped", "text[]"}

PgArrayText(list) == "{" \o CommaJoin(list) \o "}"

\* set_user_preferences, lines 146-154: the row written for a preferences dict
\* (prefs.cities is the list given by the caller, << >> when the key is absent)
PreferencesRow(p) ==
    [present |-> TRUE,
     cities |-> IF p.cities = << >> THEN CitiesNull
                ELSE {PyUpper(p.cities[i]) : i \in {j \in 1..Len(p.cities) : p.cities[j] # ""}},
     min_price |-> p.min_price, max_price |-> p.max_price,
     min_rooms |-> p.min_rooms, max_rooms |-> p.max_rooms,
     property_type |-> IF p.property_type = TypesNone THEN NULL
                       ELSE PgArrayText(p.property_type),
     min_area |-> p.min_area, max_area |-> p.max_area,
     neighborhood |-> p.neighborhood,
     classes |-> p.property_type]

\* set_user_preferences, lines 156-187: the row of a user after the call; a
\* rejected INSERT is rolled back and leaves the row as it was (classes is
\* history and records the dict either way)
SavedRow(old, p, binding) ==
    IF p.property_type # TypesNone /\ binding = "text[]"
    THEN [old EXCEPT !.classes = p.property_type]
    ELSE PreferencesRow(p)

PrefsDict(cities, maxPrice) ==
    [cities |-> cities, min_price |-> NoInt, max_price |-> maxPrice,
     min_rooms |-> NoInt, max_rooms |-> NoInt, property_type |-> TypesNone,
     min_area |-> NoInt, max_area |-> NoInt, neighborhood |-> NULL]

\* The preference dictionaries the chat front-end submits in this model.
PrefChoices ==
    {PrefsDict(<<"utrecht", "Den Haag">>, 0),
     PrefsDict(<<"utrecht">>, 2000),
     PrefsDict(<< >>, NoInt)}

\* a minimum that shuts out the users who set none
MinOk_NullExcludes(min, value) == min # NoInt /\ value # NoInt /\ value >= min

\* (up.min IS NULL OR value >= up.min): true only when the comparison is TRUE
MinOk(min, value) == min = NoInt \/ (value # NoInt /\ value >= min)

\* a maximum without the "OR up.max = 0" escape
MaxOk_NoZeroRule(max, value) == max = NoInt \/ (value # NoInt /\ value <= max)

\* (up.max IS NULL OR value <= up.max OR up.max = 0)
MaxOk(max, value) == max = NoInt \/ (value # NoInt /\ value <= max) \/ max = 0

\* the cities test without "up.cities IS NOT NULL"
CitiesOk_NullAny(cities, city) == cities = CitiesNull \/ city \in cities

\* lines 331 and 333: up.cities IS NOT NULL
\* AND (up.cities IS NULL OR %s = ANY(up.cities))
CitiesOk(cities, city) ==
    /\ cities # CitiesNull
    /\ (cities = CitiesNull \/ city \in cities)

\* add_matched_properties_to_queue, lines 331-343: the WHERE clause for user u
\* and the properties row r (city is passed as property_row[8].upper())
MatchesUser(u, r) ==
    /\ users[u].is_active
    /\ prefs[u].present
    /\ users[u].notification_enabled
    /\ CitiesOk(prefs[u].cities, PyUpper(r.city))
    /\ MinOk(prefs[u].min_price, r.price_numeric)
    /\ MaxOk(prefs[u].max_price, r.price_numeric)
    /\ MinOk(prefs[u].min_rooms, r.rooms)
    /\ MaxOk(prefs[u].max_rooms, r.rooms)
    /\ (prefs[u].property_type = NULL \/ SqlEq(r.property_type, prefs[u].property_type))
    /\ MinOk(prefs[u].min_area, r.living_area)
    /\ MaxOk(prefs[u].max_area, r.living_area)
    /\ (prefs[u].neighborhood = NULL
        \/ (r.neighborhood # NULL /\ ILikeContains(r.neighborhood, prefs[u].neighborhood)))

\* The users the INSERT ... SELECT of lines 328-344 selects for property pid;
\* none when the row is missing (line 323) or its city is None (line 347 raises)
MatchedUsersIn(props, pid) ==
    IF \E r \in props : r.id = pid /\ r.city # NULL
    THEN LET r == CHOOSE r \in props : r.id = pid
         IN  {u \in UserIds : MatchesUser(u, r)}
    ELSE {}

MatchedUsers(pid) == MatchedUsersIn(properties, pid)

HasEntry(q, u, pid) == \E e \in q : e.user_id = u /\ e.property_id = pid

\* notification_queue.id: rows are never deleted here, so a row is named by
\* its unique (user_id, property_id) instead of a SERIAL number
QueueId(u, pid) == <<u, pid>>

\* an upsert in place of DO NOTHING: a matched user's row is replaced by a
\* fresh pending one
QueueInsert_Upsert(q, matched, pid, t) ==
    {e \in q : ~(e.property_id = pid /\ e.user_id \in matched)}
        \cup {[id |-> QueueId(u, pid), user_id |-> u, property_id |-> pid,
               created_at |-> t, status |-> "pending", attempts |-> 0] : u \in matched}

\* ON CONFLICT (user_id, property_id) DO NOTHING: only users without a row
\* for the property get one
QueueInsert(q, matched, pid, t) ==
    LET fresh == {u \in matched : ~HasEntry(q, u, pid)}
    IN  q \cup {[id |-> QueueId(u, pid), user_id |-> u, property_id |-> pid,
                 created_at |-> t, status |-> "pending", attempts |-> 0] : u \in fresh}

(***************************************************************************)
(* PropertyDatabase.find_potential_duplicates                              *)
(***************************************************************************)
Min3(a, b, c) ==
    IF a <= b /\ a <= c THEN a ELSE IF b <= c THEN b ELSE c

Max3(a, b, c) ==
    IF a >= b /\ a >= c THEN a ELSE IF b >= c THEN b ELSE c

\* levenshtein(s, t) of fuzzystrmatch: the edit distance of two texts
RECURSIVE Levenshtein(_, _)
Levenshtein(s, t) ==
    IF Len(s) = 0 THEN Len(t)
    ELSE IF Len(t) = 0 THEN Len(s)
    ELSE Min3(Levenshtein(SubSeq(s, 2, Len(s)), t) + 1,
              Levenshtein(s, SubSeq(t, 2, Len(t))) + 1,
              Levenshtein(SubSeq(s, 2, Len(s)), SubSeq(t, 2, Len(t)))
                  + (IF SubSeq(s, 1, 1) = SubSeq(t, 1, 1) THEN 0 ELSE 1))

\* the place of a lower-case letter in the alphabet (0 for any other character)
AlphaIndex(c) ==
    IF \E i \in 1..Len(LowerAlpha) : SubSeq(LowerAlpha, i, i) = c
    THEN CHOOSE i \in 1..Len(LowerAlpha) : SubSeq(LowerAlpha, i, i) = c
    ELSE 0

\* a < b for two texts (source names are lower-case words)
RECURSIVE TextLess(_, _)
TextLess(a, b) ==
    IF Len(b) = 0 THEN FALSE
    ELSE IF Len(a) = 0 THEN TRUE
    ELSE IF SubSeq(a, 1, 1) = SubSeq(b, 1, 1)
         THEN TextLess(SubSeq(a, 2, Len(a)), SubSeq(b, 2, Len(b)))
         ELSE AlphaIndex(SubSeq(a, 1, 1)) < AlphaIndex(SubSeq(b, 1, 1))

\* lines 439-441: both addresses set and levenshtein / GREATEST(lengths, 1),
\* an integer division, below 1.0 - threshold (threshold in hundredths)
AddressClose(a, b, threshold) ==
    /\ a # NULL
    /\ b # NULL
    /\ (Levenshtein(SqlLower(a), SqlLower(b)) \div Max3(Len(a), Len(b), 1)) * 100
          < 100 - threshold

DupPair(a, b) ==
    [id_1 |-> a.id, id_2 |-> b.id, source_1 |-> a.source, source_2 |-> b.source,
     property_hash |-> a.property_hash]

\* the self-join without "a.source < b.source"
FindPotentialDuplicates_AnySource(props, threshold) ==
    {DupPair(a, b) : <<a, b>> \in
        {x \in props \X props :
            /\ SqlEq(x[1].property_hash, x[2].property_hash)
            /\ AddressClose(x[1].address, x[2].address, threshold)}}

\* lines 417-443: properties a JOIN properties b ON a.source < b.source
\* AND a.property_hash = b.property_hash AND the addresses are close
FindPotentialDuplicates(props, threshold) ==
    {DupPair(a, b) : <<a, b>> \in
        {x \in props \X props :
            /\ TextLess(x[1].source, x[2].source)
            /\ SqlEq(x[1].property_hash, x[2].property_hash)
            /\ AddressClose(x[1].address, x[2].address, threshold)}}

NoDups == [threshold |-> NoInt, pairs |-> {}]

\* History of a call: what the SELECT could see and what the call did.
NoCall == [l |-> BareListing("funda", NULL, "u1", 1000), ret |-> "none",
           rows |-> 0, keyRows |-> {}, hashRows |-> {}, found |-> NoRow,
           repeat |-> FALSE, prevRet |-> "none", prevFresh |-> FALSE]

KeyRows(props, l) ==
    {r.id : r \in {x \in props : SqlEq(x.source, l.source)
                                  /\ SqlEq(x.source_id, l.source_id)}}

HashRows(props, l) ==
    {r.id : r \in {x \in props : SqlEq(x.property_hash, ListingHash(l))}}

CallRecord(props, l, found, ret) ==
    [l |-> l, ret |-> ret, rows |-> Cardinality(props),
     keyRows |-> KeyRows(props, l), hashRows |-> HashRows(props, l),
     found |-> found,
     repeat |-> (lastCall.ret # "none" /\ lastCall.l = l),
     prevRet |-> lastCall.ret,
     prevFresh |-> (lastCall.keyRows = {} /\ lastCall.hashRows = {})]

Procs == {1, 2}

IdleCaller == [pc |-> "idle", l |-> NoCall.l, found |-> NoRow, ret |-> "none"]

\* One whole save_listing call of the single scraper process (the method is
\* synchronous: nothing interleaves between its SELECT and its commit).
SaveListing(l) ==
    /\ ncalls < MaxCalls
    /\ \E found \in FetchOne(properties, l) :
          LET w == WriteListing(properties, next_id, l, found, now)
          IN  /\ properties' = w.props
              /\ next_id' = w.next_id
              /\ lastCall' = CallRecord(properties, l, found, w.ret)
    /\ lastDups' = NoDups
    /\ ncalls' = ncalls + 1
    /\ UNCHANGED <<now, callers, notifyVars>>
    /\ UNCHANGED schedVars

Tick ==
    /\ now < MaxTime
    /\ now' = now + 1
    /\ lastDups' = NoDups
    /\ UNCHANGED <<properties, next_id, lastCall, ncalls, callers, notifyVars>>
    /\ UNCHANGED schedVars

\* the thresholds find_potential_duplicates is called with (0.8 by default),
\* in hundredths
Thresholds == {80, 50}

\* find_potential_duplicates(threshold): a read of the table
FindDuplicates(threshold) ==
    /\ lastDups' = [threshold |-> threshold,
                    pairs |-> FindPotentialDuplicates(properties, threshold)]
    /\ UNCHANGED <<now, properties, next_id, lastCall, ncalls, callers, notifyVars>>
    /\ UNCHANGED schedVars

(***************************************************************************)
(* Notification queue and delivery worker                                  *)
(***************************************************************************)
\* an UPDATE without its WHERE clause: every row of the table is written
SetStatus_AllRows(q, id, status, attempts) ==
    {[e EXCEPT !.status = status,
               !.attempts = IF attempts = NoInt THEN @ ELSE attempts] : e \in q}

\* update_notification_status: UPDATE notification_queue ... WHERE id = %s
\* (attempts = NoInt: the attempts column is left alone)
SetStatus(q, id, status, attempts) ==
    {IF e.id = id
       THEN [e EXCEPT !.status = status,
                      !.attempts = IF attempts = NoInt THEN @ ELSE attempts]
       ELSE e : e \in q}

\* the pending rows, whatever their users' flags say
EligiblePending_AnyUser ==
    {e \in queue :
        /\ e.status = "pending"
        /\ \E r \in properties : r.id = e.property_id}

\* get_pending_notifications, lines 223-228: the rows the WHERE and JOINs keep
EligiblePending ==
    {e \in queue :
        /\ e.status = "pending"
        /\ \E r \in properties : r.id = e.property_id
        /\ users[e.user_id].is_active
        /\ users[e.user_id].notification_enabled}

RECURSIVE SeqsOf(_)
SeqsOf(S) ==
    IF S = {} THEN {<< >>}
    ELSE UNION {{<<e>> \o t : t \in SeqsOf(S \ {e})} : e \in S}

Min2(a, b) == IF a < b THEN a ELSE b

\* lines 229-230: the columns of a fetched row the worker goes on to use
NotificationDict(e) ==
    [id |-> e.id, user_id |-> e.user_id, property_id |-> e.property_id,
     attempts |-> e.attempts]

\* ORDER BY nq.created_at ASC LIMIT %s: every result the query may return
\* (rows with equal created_at come in any order)
PendingBatches(limit) ==
    LET k == Min2(limit, Cardinality(EligiblePending))
        picks == {S \in SUBSET EligiblePending :
                    /\ Cardinality(S) = k
                    /\ \A e \in S, f \in EligiblePending \ S :
                          e.created_at <= f.created_at}
        ordered == {b \in UNION {SeqsOf(S) : S \in picks} :
                       \A i, j \in 1..Len(b) :
                           i < j => b[i].created_at <= b[j].created_at}
    IN  {[i \in 1..Len(b) |-> NotificationDict(b[i])] : b \in ordered}

\* a count that ignores notification_history
HistoryCount_Zero(u) == 0

\* lines 203-206: SELECT COUNT(*) ... WHERE user_id = %s AND sent_at > NOW() - 24 hours
HistoryCount(u) ==
    Cardinality({h \in history : h.user_id = u /\ h.sent_at > now - DayHours})

\* a success that leaves notification_history as it was
RecordSent_Skip(hist, u, pid, t) == hist

\* record_notification_sent: INSERT ... ON CONFLICT (user_id, property_id)
\* DO UPDATE SET sent_at = NOW()
RecordSent(hist, u, pid, t) ==
    {h \in hist : ~(h.user_id = u /\ h.property_id = pid)}
        \cup {[user_id |-> u, property_id |-> pid, sent_at |-> t]}

IdleWorker == [pc |-> "idle", batch |-> << >>, i |-> 0,
               counts |-> [u \in UserIds |-> NoInt], attempt |-> 0]

\* the for loop of line 186 moves to the next notification, or the run ends
Advance(w) ==
    IF w.i < Len(w.batch)
    THEN [w EXCEPT !.pc = "check", !.i = w.i + 1, !.attempt = 0]
    ELSE IdleWorker

NotifyProperties ==
    {InsertedRow(1, WithScraperHash(CityListing("funda", "1", "u1", "Utrecht", 1500)), 0),
     InsertedRow(2, WithScraperHash(CityListing("funda", "2", "u2", "Utrecht", 2500)), 0),
     InsertedRow(3, WithScraperHash(CityListing("pararius", "3", "u3", "DEN HAAG", 1500)), 0)}

NoEnq == [pid |-> 0, repeat |-> FALSE, added |-> {}, lost |-> {}]

NoSend == [outcome |-> "none", id |-> <<0, 0>>, tries |-> 0, was_active |-> FALSE]

InitNotify(prefs101, prefs102) ==
    /\ users = [u \in UserIds |-> [is_active |-> TRUE, notification_enabled |-> TRUE]]
    /\ prefs = [u \in UserIds |-> IF u = 101 THEN prefs101 ELSE prefs102]
    /\ queue = {}
    /\ history = {}
    /\ worker = IdleWorker
    /\ delivered = {}
    /\ capHits = {}
    /\ enqueued = {}
    /\ lastEnq = NoEnq
    /\ lastSend = NoSend

(***************************************************************************)
(* RealEstateScraper: one scan cycle over query URLs and (source, city)    *)
(***************************************************************************)
\* self.sources; the factory has an adapter for each of them
ScanSources == <<"pararius", "funda", "regioutrecht">>
ScanCities  == <<"utrecht">>                         \* self.cities

FundaMinInterval    == 10    \* SITE_CONFIGS["funda"]["min_interval"]
ParariusMinInterval == 10    \* SITE_CONFIGS["pararius"]["min_interval"]

\* SITE_CONFIGS, with the entry the factory needs before it builds the
\* WoningNet adapter of a region; that entry sets no min_interval
SiteConfigs ==
    [funda |-> [min_interval |-> FundaMinInterval],
     pararius |-> [min_interval |-> ParariusMinInterval],
     regioutrecht |-> [source_name |-> "regioutrecht"]]

\* the scraper's interval for every source, whatever SITE_CONFIGS says
SourceMinInterval_Default(source) == Interval

\* SITE_CONFIGS.get(source, {}).get("min_interval", self.interval)
SourceMinInterval(source) ==
    IF source \in DOMAIN SiteConfigs /\ "min_interval" \in DOMAIN SiteConfigs[source]
    THEN SiteConfigs[source].min_interval
    ELSE Interval

SeqToSet(s) == {s[i] : i \in 1..Len(s)}

\* the query_urls table as the operator filled it (last_scan_time still NULL)
QueryUrlRows ==
    [id \in 1..5 |->
        [id |-> id,
         source |-> IF id = 2 THEN "funda" ELSE "pararius",
         queryurl |-> CASE id = 1 -> "p/x/1" [] id = 2 -> "f/utrecht/1"
                        [] id = 3 -> "p/x/2" [] id = 4 -> "p/x/3"
                        [] OTHER -> "p/x/4",
         enabled |-> id # 5,
         last_scan_time |-> NoInt]]

\* the ids of a set of rows in ascending order
RECURSIVE SortedIds(_)
SortedIds(ids) ==
    IF ids = {} THEN << >>
    ELSE LET m == CHOOSE i \in ids : \A j \in ids : i <= j
         IN  <<m>> \o SortedIds(ids \ {m})

\* the ids of a set of rows in descending order
RECURSIVE SortedIdsDesc(_)
SortedIdsDesc(ids) ==
    IF ids = {} THEN << >>
    ELSE LET m == CHOOSE i \in ids : \A j \in ids : i >= j
         IN  <<m>> \o SortedIdsDesc(ids \ {m})

\* the enabled rows of the sources, ORDER BY id DESC
GetEnabledQueryUrls_Desc(table, sources) ==
    LET ids == {id \in DOMAIN table :
                   table[id].enabled /\ table[id].source \in SeqToSet(sources)}
        ord == SortedIdsDesc(ids)
    IN  [i \in 1..Len(ord) |-> table[ord[i]]]

\* get_enabled_query_urls(sources): enabled rows of the sources, ORDER BY id ASC
GetEnabledQueryUrls(table, sources) ==
    LET ids == {id \in DOMAIN table :
                   table[id].enabled /\ table[id].source \in SeqToSet(sources)}
        ord == SortedIds(ids)
    IN  [i \in 1..Len(ord) |-> table[ord[i]]]

\* run_one_scan, lines 245-258: the rows grouped by source, in the order the
\* two nested loops visit them
RECURSIVE ScanOrder(_, _)
ScanOrder(rows, sources) ==
    IF sources = << >> THEN << >>
    ELSE SelectSeq(rows, LAMBDA r : r.source = Head(sources))
             \o ScanOrder(rows, Tail(sources))

\* lines 313-314: for source in self.sources: for city in self.cities
CityPairs ==
    [k \in 1..(Len(ScanSources) * Len(ScanCities)) |->
        [source |-> ScanSources[((k - 1) \div Len(ScanCities)) + 1],
         city |-> ScanCities[((k - 1) % Len(ScanCities)) + 1]]]

\* f"query_url_{query_id}", the scan_history key of a query URL
QueryUrlKey(id) == "query_url_" \o ToString(id)

\* scraper.build_search_url(city, days)
BuildSearchUrl(source, city) == SubSeq(source, 1, 1) \o "/" \o city

\* what the adapters find on the result pages
FundaA == CityListing("funda", "1", "fu1", "Utrecht", 1500)
ParA   == CityListing("pararius", "7", "pu1", NULL, 1500)
ParB   == CityListing("pararius", "8", "pu2", NULL, 1500)
\* WoningNet: source_id is item.get("Id"), None for an item without Id
RegioA == CityListing("regioutrecht", "9", "ru9", "UTRECHT", 1500)
RegioB == CityListing("regioutrecht", NULL, "ruNone", "UTRECHT", 1500)

\* scraper.parse_search_page(response.text) for the page a URL serves, and
\* whether response.url is still the requested URL: the second page of the
\* pararius search redirects, the third one is empty
SitePage(url) ==
    CASE url = "p/x/1" ->
            [final_same |-> TRUE, listings |-> <<WithScraperHash(ParA)>>]
      [] url = "p/x/2" ->
            [final_same |-> FALSE, listings |-> <<WithScraperHash(ParB)>>]
      [] url = "f/utrecht/1" ->
            [final_same |-> TRUE, listings |-> <<WithScraperHash(FundaA)>>]
      [] url = "f/utrecht" ->
            [final_same |-> TRUE, listings |-> <<WithScraperHash(FundaA)>>]
      [] url = "p/utrecht" ->
            [final_same |-> TRUE, listings |-> <<WithScraperHash(ParA)>>]
      [] url = "r/utrecht" ->
            [final_same |-> TRUE,
             listings |-> <<WithScraperHash(RegioA), WithScraperHash(RegioB)>>]
      [] OTHER -> [final_same |-> TRUE, listings |-> << >>]

\* http_client.get(url) and the parse: either one raises (final_url stays
\* ""), or the page is parsed
Responses(url) ==
    {[raised |-> TRUE, final_same |-> FALSE, listings |-> << >>],
     [raised |-> FALSE, final_same |-> SitePage(url).final_same,
      listings |-> SitePage(url).listings]}

\* text.lower()
PyLower(str) == SqlLower(str)

\* city.lower() in url.lower()
LowerContains(text, pat) ==
    \E i \in 1..(Len(text) + 1) :
        /\ i + Len(pat) - 1 <= Len(text)
        /\ SubSeq(PyLower(text), i, i + Len(pat) - 1) = PyLower(pat)

\* a scan that leaves a listing without a city as the adapter built it
FillCity_None(url) == ""

\* scan_query_url, lines 133-139: the city given to a listing without one
FillCity(url) ==
    IF \E i \in 1..Len(ScanCities) : LowerContains(url, ScanCities[i])
    THEN ScanCities[CHOOSE i \in 1..Len(ScanCities) :
                       /\ LowerContains(url, ScanCities[i])
                       /\ \A j \in 1..(i - 1) : ~LowerContains(url, ScanCities[j])]
    ELSE "unknown"

\* get_property_id_by_source_id: SELECT id ... WHERE source = %s AND
\* source_id = %s, fetchone(); NoRow for None
GetPropertyIdBySourceId(props, source, source_id) ==
    LET ids == {r.id : r \in {x \in props : SqlEq(x.source, source)
                                           /\ SqlEq(x.source_id, source_id)}}
    IN  IF ids = {} THEN {NoRow} ELSE ids

\* the body of the listing loop for one listing (lines 131-151 / 203-218):
\* every state it may leave behind
ProcessListing(l0, fill, st) ==
    LET l == IF Truthy(l0.city) THEN l0 ELSE [l0 EXCEPT !.city = fill]
    IN  UNION {
          LET w == WriteListing(st.props, st.next_id, l, found, now)
          IN  IF w.ret # "new"
              THEN {[st EXCEPT !.props = w.props, !.next_id = w.next_id]}
              ELSE {[props |-> w.props, next_id |-> w.next_id,
                     new |-> st.new + 1,
                     newIds |-> st.newIds \cup {st.next_id},
                     queue |-> IF pid = NoRow THEN st.queue
                               ELSE QueueInsert(st.queue, MatchedUsersIn(w.props, pid),
                                                pid, now),
                     enqIds |-> IF pid = NoRow THEN st.enqIds
                                ELSE st.enqIds \cup {pid}] :
                       pid \in GetPropertyIdBySourceId(w.props, l.source, l.source_id)}
          : found \in FetchOne(st.props, l)}

\* for listing in listings: ...
RECURSIVE ProcessListings(_, _, _)
ProcessListings(ls, fill, st) ==
    IF ls = << >> THEN {st}
    ELSE UNION {ProcessListings(Tail(ls), fill, s) : s \in ProcessListing(Head(ls), fill, st)}

\* update_scan_history: INSERT ... ON CONFLICT (source, city) DO UPDATE
UpdateScanHistory(hist, source, city, new, total, t) ==
    {h \in hist : ~(h.source = source /\ h.city = city)}
        \cup {[source |-> source, city |-> city, scan_time |-> t,
               new_listings_count |-> new, total_listings_count |-> total]}

\* get_last_scan_time(source, city); NoInt for None
GetLastScanTime(hist, source, city) ==
    IF \E h \in hist : h.source = source /\ h.city = city
    THEN (CHOOSE h \in hist : h.source = source /\ h.city = city).scan_time
    ELSE NoInt

\* lines 265-275 / 318-328: should_scan
ShouldScan(last_scan_time, source, t) ==
    last_scan_time = NoInt \/ ~(t - last_scan_time < SourceMinInterval(source))

\* the rules without the stop_after_no_result branch
SkipsSource_NoStopRule(first, stop, source, new, total, final_same) ==
    \/ first /\ new = 0 /\ total # 0
    \/ first /\ total = 0
    \/ ~first /\ new = 0 /\ total # 0

\* only a page that has listings but no new one stops the source
\* (an empty result, and so a raised scan, does not)
SkipsSource_NonEmptyOnly(first, stop, source, new, total, final_same) ==
    new = 0 /\ total # 0

\* lines 283-306: does the result of a scanned query URL put the source into
\* sources_to_skip
SkipsSource(first, stop, source, new, total, final_same) ==
    \/ first /\ new = 0 /\ total # 0
    \/ first /\ total = 0
    \/ ~first /\ new = 0 /\ total # 0
    \/ stop /\ ((PyLower(source) = "pararius" /\ ~final_same) \/ total = 0)

(***************************************************************************)
(* EnhancedHttpClient.get                                                  *)
(***************************************************************************)
\* max_antibot_retries (default of get)
MaxAntibotRetries == 8

\* browser_profiles: "Default Browser" and "Desktop Chrome"
BrowserProfiles == <<"Default Browser", "Desktop Chrome">>

\* what one request of get may meet: a page, a body with an anti-bot
\* pattern (status 200), status 404, 429, another status >= 400, or an
\* httpx.RequestError / TimeoutException (too many redirects included)
ResponseKinds == {"page", "antibot", "s404", "s429", "s4xx", "transport"}

\* lines 559-568: the profile of the attempt with this retry count
ProfileIndex(count) ==
    IF count = 0 THEN 0
    ELSE IF count <= Len(BrowserProfiles) - 1 THEN count
    ELSE Len(BrowserProfiles) - 1

\* lines 661-687: is the body checked for anti-bot patterns on this attempt
ChecksAntiBot(retry_anti_bot, count) ==
    retry_anti_bot /\ count < MaxAntibotRetries

\* the URLs the scans ask for
FetchUrls == {"p/x/1", "f/utrecht/1"}

\* lines 651-654: the URL joins session_history, which keeps the last five
SessionHistoryLen == 5

AppendHistory(hist, url) ==
    LET h == Append(hist, url)
    IN  IF Len(h) > SessionHistoryLen THEN Tail(h) ELSE h

IdleHttp == [pc |-> "idle", url |-> NULL, antibot_retry_count |-> 0,
             response |-> NULL, session_history |-> << >>]

NoRequests == [requests |-> 0, profiles |-> << >>, allAntiBot |-> TRUE]

\* the two processes, each with the stop event of its main(); "off" for a
\* process the behaviour does not follow. run_continuously of the notifier is
\* started without a stop event and makes its own (lines 304-305)
InitLoops(scraper, notifier) ==
    /\ scraper_loop = [pc |-> scraper, stop_event |-> FALSE]
    /\ notifier_main = [task |-> notifier, stop_event |-> FALSE,
                        loop_stop_event |-> FALSE]

InitRun ==
    /\ http = IdleHttp
    /\ httpLog = NoRequests
    /\ InitLoops("off", "off")

\* a call of get(url) starts (retry_anti_bot = True, as every caller leaves it)
HttpStart(url) ==
    /\ http.pc # "loop"
    /\ http' = [pc |-> "loop", url |-> url, antibot_retry_count |-> 0,
                response |-> NULL, session_history |-> http.session_history]
    /\ httpLog' = NoRequests
    /\ UNCHANGED <<now, storeVars, callers, notifyVars>>
    /\ UNCHANGED <<query_urls, scan_history, stop_after_no_result, sched,
                   lastScan, prev, proxy_manager, proxyLog>>
    /\ UNCHANGED <<scraper_loop, notifier_main>>

\* lines 557-700: one turn of the loop of get, the request included
HttpAttempt(kind) ==
    /\ http.pc = "loop"
    /\ http.antibot_retry_count <= MaxAntibotRetries
    /\ LET count == http.antibot_retry_count
           raises == kind \in {"s429", "s4xx", "transport"}
           retry  == count < MaxAntibotRetries
       IN  /\ httpLog' = [requests |-> httpLog.requests + 1,
                          profiles |-> Append(httpLog.profiles, ProfileIndex(count)),
                          allAntiBot |-> httpLog.allAntiBot /\ kind = "antibot"]
           /\ http' =
                 IF raises
                 THEN IF retry
                      THEN [http EXCEPT !.antibot_retry_count = count + 1]
                      ELSE [http EXCEPT !.pc = "raised"]
                 ELSE IF kind = "s404"
                 THEN [http EXCEPT !.pc = "returned", !.response = kind]
                 ELSE IF kind = "antibot" /\ ChecksAntiBot(TRUE, count)
                 THEN [http EXCEPT !.antibot_retry_count = count + 1,
                                   !.response = kind,
                                   !.session_history = AppendHistory(@, http.url)]
                 ELSE [http EXCEPT !.pc = "returned", !.response = kind,
                                   !.session_history = AppendHistory(@, http.url)]
    /\ UNCHANGED <<now, storeVars, callers, notifyVars>>
    /\ UNCHANGED <<query_urls, scan_history, stop_after_no_result, sched,
                   lastScan, prev, proxy_manager, proxyLog>>
    /\ UNCHANGED <<scraper_loop, notifier_main>>

(***************************************************************************)
(* ProxyManager and the proxies of the HTTP client                         *)
(***************************************************************************)
\* MAX_PROXY_FAILURES
MaxProxyFailures == 3

\* PROXY_LIST when proxying is on (no provider credentials:
\* get_formatted_proxy_list() returns the list as it is)
ProxyList == <<"p1", "p2">>

\* the proxies the provider API hands out
ApiProxies == <<"p3">>

AllProxies == SeqToSet(ProxyList) \cup SeqToSet(ApiProxies)

\* PROXY_ROTATION_STRATEGY
Strategies == {"round_robin", "random", "fallback"}

NewHealth == [failures |-> 0, healthy |-> TRUE]

\* ProxyManager.__init__ (the counters successes, last_used, last_success and
\* avg_response_time are written but never read by the scraper)
ProxyManagerInit(enabled, list, strategy) ==
    [enabled |-> enabled /\ list # << >>,
     proxy_list |-> list,
     rotation_strategy |-> strategy,
     max_failures |-> MaxProxyFailures,
     proxy_health |-> [p \in SeqToSet(list) |-> NewHealth],
     proxy_index |-> 0]

\* property healthy_proxies
HealthyProxies(pm) ==
    SelectSeq(pm.proxy_list, LAMBDA p : pm.proxy_health[p].healthy)

\* get_proxy: every (manager, proxy) it may leave and return; NULL for None
GetProxy(pm) ==
    LET healthy == HealthyProxies(pm)
    IN  IF ~pm.enabled \/ healthy = << >>
        THEN {[pm |-> pm, proxy |-> NULL]}
        ELSE IF pm.rotation_strategy = "round_robin"
        THEN LET i == (pm.proxy_index + 1) % Len(healthy)
             IN  {[pm |-> [pm EXCEPT !.proxy_index = i], proxy |-> healthy[i + 1]]}
        ELSE {[pm |-> pm, proxy |-> healthy[k]] : k \in 1..Len(healthy)}

\* report_success
ReportSuccess(pm, proxy) ==
    IF proxy = NULL \/ proxy \notin DOMAIN pm.proxy_health THEN pm
    ELSE [pm EXCEPT !.proxy_health[proxy].healthy = TRUE]

\* report_failure
ReportFailure(pm, proxy) ==
    IF proxy = NULL \/ proxy \notin DOMAIN pm.proxy_health THEN pm
    ELSE LET f == pm.proxy_health[proxy].failures + 1
         IN  [pm EXCEPT !.proxy_health[proxy] =
                 [failures |-> f,
                  healthy |-> IF f >= pm.max_failures THEN FALSE ELSE @.healthy]]

\* reset_all_proxies
ResetAllProxies(pm) ==
    [pm EXCEPT !.proxy_health = [p \in DOMAIN pm.proxy_health |-> NewHealth]]

\* add_proxy
AddProxy(pm, proxy) ==
    IF proxy \in DOMAIN pm.proxy_health THEN pm
    ELSE [pm EXCEPT !.proxy_list = Append(@, proxy),
                    !.proxy_health = [p \in DOMAIN @ \cup {proxy} |->
                                         IF p = proxy THEN NewHealth ELSE @[p]]]

\* fetch_new_proxies, the loop over the proxies of the API answer
RECURSIVE AddProxies(_, _)
AddProxies(pm, new) ==
    IF new = << >> THEN pm ELSE AddProxies(AddProxy(pm, Head(new)), Tail(new))

\* EnhancedHttpClient.get: one _get_random_proxy() draw from PROXY_LIST per
\* attempt of the anti-bot retry loop; the proxies its requests went through
HttpProxies(use_proxies, list) ==
    IF ~use_proxies \/ list = << >> THEN {{}}
    ELSE (SUBSET SeqToSet(list)) \ {{}}

\* what http_client.get(url) gives the scan: status 200, another status, or
\* an exception
FetchOutcomes == {"200", "status", "raised"}

\* History: the proxy get_proxy returned for the last fetch, the proxies the
\* requests went through, the healthy proxies at the draw, and per proxy the
\* current and the longest run of consecutive failures since its health was
\* last reset
NoFetch == [drawn |-> NULL, used |-> {}, healthy |-> {}, outcome |-> "none",
            run |-> [p \in AllProxies |-> 0],
            longest |-> [p \in AllProxies |-> 0]]

InitProxy(enabled, list, strategy) ==
    /\ proxy_manager = ProxyManagerInit(enabled, list, strategy)
    /\ proxyLog = NoFetch

\* scan_query_url lines 115-125 / scan_source_city lines 189-197: the proxy
\* is drawn, the page is fetched and the result is reported
FetchPage ==
    /\ proxy_manager.enabled
    /\ \E g \in GetProxy(proxy_manager), outcome \in FetchOutcomes,
          used \in HttpProxies(TRUE, ProxyList) :
          LET reported == g.proxy # NULL /\ outcome # "status"
              r == IF reported /\ outcome = "raised"
                   THEN proxyLog.run[g.proxy] + 1 ELSE 0
          IN  /\ proxy_manager' =
                    IF outcome = "200" THEN ReportSuccess(g.pm, g.proxy)
                    ELSE IF outcome = "raised" THEN ReportFailure(g.pm, g.proxy)
                    ELSE g.pm
              /\ proxyLog' =
                    [drawn |-> g.proxy, used |-> used, outcome |-> outcome,
                     healthy |-> SeqToSet(HealthyProxies(proxy_manager)),
                     run |-> IF reported
                             THEN [proxyLog.run EXCEPT ![g.proxy] = r]
                             ELSE proxyLog.run,
                     longest |-> IF reported /\ r > proxyLog.longest[g.proxy]
                                 THEN [proxyLog.longest EXCEPT ![g.proxy] = r]
                                 ELSE proxyLog.longest]
    /\ UNCHANGED <<now, storeVars, callers, notifyVars>>
    /\ UNCHANGED <<query_urls, scan_history, stop_after_no_result, sched,
                   lastScan, prev, runVars>>

\* run_one_scan lines 343-349: with fewer than half of the proxies healthy
\* at the end of a cycle, new proxies are fetched, or all are reset if that
\* fails
RefreshProxies ==
    /\ proxy_manager.enabled
    /\ 2 * Len(HealthyProxies(proxy_manager)) < Len(proxy_manager.proxy_list)
    /\ \E success \in BOOLEAN :
          IF success
          THEN /\ proxy_manager' = AddProxies(proxy_manager, ApiProxies)
               /\ proxyLog' = [NoFetch EXCEPT !.run = proxyLog.run,
                                               !.longest = proxyLog.longest]
          ELSE /\ proxy_manager' = ResetAllProxies(proxy_manager)
               /\ proxyLog' = NoFetch
    /\ UNCHANGED <<now, storeVars, callers, notifyVars>>
    /\ UNCHANGED <<query_urls, scan_history, stop_after_no_result, sched,
                   lastScan, prev, runVars>>

\* History of the cycle: per source, the last query URL the loop handled
NoPrev == [outcome |-> "none", first |-> FALSE, fetched |-> FALSE, stop |-> FALSE,
           redirect |-> FALSE, id |-> 0]

\* History: what run_one_scan did with the last query URL or (source, city)
NoScan == [kind |-> "none", action |-> "none", source |-> "", key |-> "",
           t |-> 0, last |-> NoInt, prev |-> NoPrev,
           new |-> 0, total |-> 0, newIds |-> {}, enqIds |-> {}]

IdleSched == [pc |-> "idle", rows |-> << >>, pos |-> 0,
              first_scan |-> [s \in SeqToSet(ScanSources) |-> TRUE],
              skip |-> {}, cpos |-> 0]

InitScheduler ==
    /\ query_urls = QueryUrlRows
    /\ scan_history = {}
    /\ stop_after_no_result = FALSE
    /\ sched = IdleSched
    /\ lastScan = NoScan
    /\ prev = [s \in SeqToSet(ScanSources) |-> NoPrev]

\* the state the listing loop starts from
LoopStart == [props |-> properties, next_id |-> next_id, queue |-> queue,
              new |-> 0, newIds |-> {}, enqIds |-> {}]

\* a stop condition of the pagination rule, from the result of a fetch
StopCondition(first, source, new, total, final_same) ==
    \/ first /\ total = 0
    \/ new = 0 /\ total > 0
    \/ source = "pararius" /\ ~final_same
    \/ ~first /\ total = 0

\* run_one_scan, lines 232-258: a cycle starts
StartCycle ==
    /\ sched.pc = "idle"
    /\ sched' = [IdleSched EXCEPT
                    !.pc = "urls", !.pos = 1,
                    !.rows = ScanOrder(GetEnabledQueryUrls(query_urls, ScanSources),
                                       ScanSources)]
    /\ prev' = [s \in SeqToSet(ScanSources) |-> NoPrev]
    /\ lastScan' = NoScan
    /\ UNCHANGED <<now, storeVars, callers, notifyVars, query_urls, scan_history,
                   stop_after_no_result, proxy_manager, proxyLog, runVars>>

\* the loop position after a query URL; the city loop follows the last one
\* (the locals of the query URL loop are dead from then on)
AfterUrl(s) ==
    IF s.pos < Len(s.rows) THEN [s EXCEPT !.pos = s.pos + 1]
    ELSE [IdleSched EXCEPT !.pc = "cities", !.cpos = 1]

\* lines 260-310 for one query URL, scan_query_url included
ScanQueryUrlStep ==
    /\ sched.pc = "urls"
    /\ LET q      == sched.rows[sched.pos]
           source == q.source
           first  == sched.first_scan[source]
           log(action, new, total, newIds, enqIds) ==
               [kind |-> "url", action |-> action, source |-> source,
                key |-> QueryUrlKey(q.id), t |-> now,
                last |-> query_urls[q.id].last_scan_time, prev |-> prev[source],
                new |-> new, total |-> total, newIds |-> newIds, enqIds |-> enqIds]
           after(new, total, final_same) ==
               IF SkipsSource(first, stop_after_no_result, source, new, total, final_same)
               THEN AfterUrl([sched EXCEPT !.skip = @ \cup {source}])
               ELSE AfterUrl([sched EXCEPT !.first_scan[source] = FALSE])
           hist(outcome, new, total, final_same) ==
               [prev EXCEPT ![source] =
                   [outcome |-> outcome, first |-> ~prev[source].fetched,
                    fetched |-> TRUE,
                    stop |-> prev[source].stop
                             \/ StopCondition(~prev[source].fetched, source,
                                              new, total, final_same),
                    redirect |-> prev[source].redirect
                                 \/ (outcome = "scanned" /\ ~final_same),
                    id |-> q.id]]
       IN  IF source \in sched.skip
           THEN /\ sched' = AfterUrl(sched)
                /\ lastScan' = log("skipped_source", 0, 0, {}, {})
                /\ prev' = [prev EXCEPT ![source].outcome = "skipped_source"]
                /\ UNCHANGED <<properties, next_id, queue, query_urls, scan_history>>
           ELSE IF ~ShouldScan(q.last_scan_time, source, now)
           THEN /\ sched' = AfterUrl(sched)
                /\ lastScan' = log("not_due", 0, 0, {}, {})
                /\ prev' = [prev EXCEPT ![source].outcome = "not_due"]
                /\ UNCHANGED <<properties, next_id, queue, query_urls, scan_history>>
           ELSE \E resp \in Responses(q.queryurl) :
                  IF resp.raised
                  THEN /\ sched' = after(0, 0, resp.final_same)
                       /\ lastScan' = log("raised", 0, 0, {}, {})
                       /\ prev' = hist("raised", 0, 0, resp.final_same)
                       /\ UNCHANGED <<properties, next_id, queue, query_urls,
                                      scan_history>>
                  ELSE \E st \in ProcessListings(resp.listings, FillCity(q.queryurl),
                                                 LoopStart) :
                         LET total == Len(resp.listings)
                         IN  /\ properties' = st.props
                             /\ next_id' = st.next_id
                             /\ queue' = st.queue
                             /\ scan_history' =
                                   UpdateScanHistory(scan_history, source,
                                                     QueryUrlKey(q.id), st.new, total, now)
                             /\ query_urls' = [query_urls EXCEPT
                                                  ![q.id].last_scan_time = now]
                             /\ sched' = after(st.new, total, resp.final_same)
                             /\ lastScan' = log("scanned", st.new, total,
                                                st.newIds, st.enqIds)
                             /\ prev' = hist("scanned", st.new, total, resp.final_same)
    /\ UNCHANGED <<now, lastCall, lastDups, ncalls, callers, users, prefs, history,
                   worker,
                   delivered, capHits, enqueued, lastEnq, lastSend,
                   stop_after_no_result, proxy_manager, proxyLog, runVars>>

\* the loop position after a (source, city) pair; the cycle ends after the
\* last one (detect_duplicates follows; its property_duplicates table is not
\* part of this state)
AfterCity(s) ==
    IF s.cpos < Len(CityPairs) THEN [s EXCEPT !.cpos = s.cpos + 1]
    ELSE IdleSched

\* lines 313-337 for one (source, city), scan_source_city included
ScanSourceCityStep ==
    /\ sched.pc = "cities"
    /\ LET source == CityPairs[sched.cpos].source
           city   == CityPairs[sched.cpos].city
           last   == GetLastScanTime(scan_history, source, city)
           log(action, new, total, newIds, enqIds) ==
               [kind |-> "city", action |-> action, source |-> source,
                key |-> city, t |-> now, last |-> last, prev |-> NoPrev,
                new |-> new, total |-> total, newIds |-> newIds, enqIds |-> enqIds]
       IN  IF ~ShouldScan(last, source, now)
           THEN /\ lastScan' = log("not_due", 0, 0, {}, {})
                /\ UNCHANGED <<properties, next_id, queue, scan_history>>
           ELSE \E resp \in Responses(BuildSearchUrl(source, city)) :
                  IF resp.raised
                  THEN /\ lastScan' = log("raised", 0, 0, {}, {})
                       /\ UNCHANGED <<properties, next_id, queue, scan_history>>
                  ELSE \E st \in ProcessListings(resp.listings, city, LoopStart) :
                         /\ properties' = st.props
                         /\ next_id' = st.next_id
                         /\ queue' = st.queue
                         /\ scan_history' =
                               UpdateScanHistory(scan_history, source, city, st.new,
                                                 Len(resp.listings), now)
                         /\ lastScan' = log("scanned", st.new, Len(resp.listings),
                                            st.newIds, st.enqIds)
    /\ sched' = AfterCity(sched)
    /\ prev' = [s \in SeqToSet(ScanSources) |-> NoPrev]
    /\ UNCHANGED <<now, lastCall, lastDups, ncalls, callers, users, prefs, history,
                   worker,
                   delivered, capHits, enqueued, lastEnq, lastSend, query_urls,
                   stop_after_no_result, proxy_manager, proxyLog, runVars>>

\* time passes, during a cycle or between two cycles
SchedTick ==
    /\ now + SecondsPerTick <= MaxSeconds
    /\ now' = now + SecondsPerTick
    /\ lastScan' = NoScan
    /\ UNCHANGED <<storeVars, callers, notifyVars, query_urls, scan_history,
                   stop_after_no_result, sched, prev, proxy_manager, proxyLog, runVars>>

InitSched ==
    /\ now = 0
    /\ properties = {}
    /\ next_id = 1
    /\ lastCall = NoCall
    /\ lastDups = NoDups
    /\ InitProxy(FALSE, << >>, "round_robin")
    /\ InitRun
    /\ ncalls = 0
    /\ callers = [p \in Procs |-> IdleCaller]
    /\ InitNotify(PreferencesRow(PrefsDict(<<"utrecht">>, 0)), NoPrefs)
    /\ query_urls = QueryUrlRows
    /\ scan_history = {}
    /\ stop_after_no_result \in BOOL
    /\ sched = IdleSched
    /\ lastScan = NoScan
    /\ prev = [s \in SeqToSet(ScanSources) |-> NoPrev]

NextSched ==
    \/ StartCycle
    \/ ScanQueryUrlStep
    \/ ScanSourceCityStep
    \/ SchedTick

SpecSched == InitSched /\ [][NextSched]_vars

\* the scraper started with proxying on
InitProxySpec ==
    /\ now = 0
    /\ properties = {}
    /\ next_id = 1
    /\ lastCall = NoCall
    /\ lastDups = NoDups
    /\ ncalls = 0
    /\ callers = [p \in Procs |-> IdleCaller]
    /\ InitNotify(NoPrefs, NoPrefs)
    /\ InitScheduler
    /\ \E strategy \in Strategies : InitProxy(TRUE, ProxyList, strategy)
    /\ InitRun

NextProxy ==
    \/ FetchPage
    \/ RefreshProxies

SpecProxy == InitProxySpec /\ [][NextProxy]_vars

NextHttp ==
    \/ \E url \in FetchUrls : HttpStart(url)
    \/ \E kind \in ResponseKinds : HttpAttempt(kind)

\* the scraper as constructed, before its first fetch
InitHttp ==
    /\ now = 0
    /\ properties = {}
    /\ next_id = 1
    /\ lastCall = NoCall
    /\ lastDups = NoDups
    /\ ncalls = 0
    /\ callers = [p \in Procs |-> IdleCaller]
    /\ InitNotify(NoPrefs, NoPrefs)
    /\ InitScheduler
    /\ InitProxy(FALSE, << >>, "round_robin")
    /\ InitRun

SpecHttp == InitHttp /\ [][NextHttp]_vars

InitStore ==
    /\ now = 0
    /\ properties = {}
    /\ next_id = 1
    /\ lastCall = NoCall
    /\ lastDups = NoDups
    /\ InitProxy(FALSE, << >>, "round_robin")
    /\ InitRun
    /\ ncalls = 0
    /\ callers = [p \in Procs |-> IdleCaller]
    /\ InitScheduler

Init ==
    /\ InitStore
    /\ InitNotify(NoPrefs, NoPrefs)

Next ==
    \/ \E l \in StoreListings : SaveListing(l)
    \/ \E th \in Thresholds : FindDuplicates(th)
    \/ Tick

Spec == Init /\ [][Next]_vars

(***************************************************************************)
(* Two processes calling save_listing on their own connections: the SELECT *)
(* and the INSERT/UPDATE + commit of one call are separate statements.     *)
(***************************************************************************)
\* lines 34-42 of one caller
SaveSelect(p, l) ==
    /\ ncalls < MaxCalls
    /\ callers[p].pc \in {"idle", "returned"}
    /\ \E found \in FetchOne(properties, l) :
          callers' = [callers EXCEPT ![p] =
                         [pc |-> "selected", l |-> l, found |-> found, ret |-> "none"]]
    /\ ncalls' = ncalls + 1
    /\ UNCHANGED <<now, properties, next_id, lastCall, lastDups, notifyVars>>
    /\ UNCHANGED schedVars

\* lines 44-179 of one caller; a conflicting INSERT waits for the other
\* transaction's commit and then fails with a unique violation
SaveWrite(p) ==
    /\ callers[p].pc = "selected"
    /\ LET w == WriteListing(properties, next_id, callers[p].l, callers[p].found, now)
       IN  /\ properties' = w.props
           /\ next_id' = w.next_id
           /\ callers' = [callers EXCEPT ![p].pc = "returned", ![p].ret = w.ret]
    /\ UNCHANGED <<now, lastCall, lastDups, ncalls, notifyVars>>
    /\ UNCHANGED schedVars

NextConcurrent ==
    \/ \E p \in Procs, l \in StoreListings : SaveSelect(p, l)
    \/ \E p \in Procs : SaveWrite(p)

SpecConcurrent == Init /\ [][NextConcurrent]_vars

(***************************************************************************)
(* Actions of the notifier process and of the enqueueing scraper           *)
(***************************************************************************)
\* add_matched_properties_to_queue(property_id)
AddMatched(pid) ==
    /\ queue' = QueueInsert(queue, MatchedUsers(pid), pid, now)
    /\ lastEnq' = [pid |-> pid, repeat |-> pid \in enqueued,
                   added |-> queue' \ queue, lost |-> queue \ queue']
    /\ enqueued' = enqueued \cup {pid}
    /\ lastSend' = NoSend
    /\ UNCHANGED <<now, storeVars, callers, users, prefs, history, worker,
                   delivered, capHits>>
    /\ UNCHANGED schedVars

\* set_user_preferences(user_id, preferences), from the chat front-end
SetPreferences(u, p) ==
    /\ \E binding \in ListBindings :
          prefs' = [prefs EXCEPT ![u] = SavedRow(prefs[u], p, binding)]
    /\ prefs' # prefs
    /\ enqueued' = {}
    /\ UNCHANGED <<now, storeVars, callers, users, queue, history,
                   worker, delivered, capHits>>
    /\ lastEnq' = NoEnq
    /\ lastSend' = NoSend
    /\ UNCHANGED schedVars

\* toggle_notifications(user_id, enabled), from the chat front-end
ToggleNotifications(u, b) ==
    /\ users[u].notification_enabled # b
    /\ users' = [users EXCEPT ![u].notification_enabled = b]
    /\ enqueued' = {}
    /\ UNCHANGED <<now, storeVars, callers, prefs, queue, history,
                   worker, delivered, capHits>>
    /\ lastEnq' = NoEnq
    /\ lastSend' = NoSend
    /\ UNCHANGED schedVars

\* process_notification_queue, lines 172-183
WorkerPick ==
    /\ worker.pc = "idle"
    /\ \E b \in PendingBatches(BatchSize) :
          /\ b # << >>
          /\ worker' = [IdleWorker EXCEPT !.pc = "check", !.batch = b, !.i = 1]
    /\ UNCHANGED <<now, storeVars, callers, users, prefs, queue,
                   history, delivered, capHits, enqueued>>
    /\ lastEnq' = NoEnq
    /\ lastSend' = NoSend
    /\ UNCHANGED schedVars

\* lines 186-219: the daily-limit check of one notification, then either
\* rate_limited (continue) or processing with attempts + 1
WorkerCheck ==
    /\ worker.pc = "check"
    /\ LET n == worker.batch[worker.i]
           u == n.user_id
           c == IF worker.counts[u] # NoInt THEN worker.counts[u] ELSE HistoryCount(u)
       IN  IF c >= MaxPerDay
           THEN /\ queue' = SetStatus(queue, n.id, "rate_limited", NoInt)
                /\ worker' = [Advance(worker) EXCEPT
                                 !.counts = IF worker.i < Len(worker.batch)
                                            THEN [worker.counts EXCEPT ![u] = c]
                                            ELSE @]
                /\ capHits' = capHits \cup
                                 {[user_id |-> u, property_id |-> n.property_id, t |-> now]}
           ELSE /\ queue' = SetStatus(queue, n.id, "processing", n.attempts + 1)
                /\ worker' = [worker EXCEPT !.pc = "send", !.attempt = 0,
                                            !.counts = [@ EXCEPT ![u] = c]]
                /\ UNCHANGED capHits
    /\ UNCHANGED <<now, storeVars, callers, users, prefs, history,
                   delivered, enqueued>>
    /\ lastEnq' = NoEnq
    /\ lastSend' = NoSend
    /\ UNCHANGED schedVars

\* the exception classes of telegram.error in the releases of the library
\* this module can be imported with: line 8 imports CopyTextButton and the
\* sends are awaited, and those releases name the "bot was blocked by the
\* user" error Forbidden; they define no telegram.error.Unauthorized
TelegramErrors == {"TelegramError", "BadRequest", "Forbidden", "NetworkError",
                   "TimedOut", "RetryAfter", "InvalidToken", "Conflict",
                   "ChatMigrated"}

\* what bot.send_message answers: it returns, or raises one of these
SendOutcomes == {"ok", "BadRequest", "Forbidden", "NetworkError"}

\* lines 132-152: the except clause that ends up handling an exception.  The
\* clauses are evaluated in order; an exception that is no BadRequest makes
\* Python evaluate telegram.error.Unauthorized, and when the library has no
\* such attribute that AttributeError leaves the loop and is caught at line 150
Handler(raised) ==
    IF raised = "BadRequest" THEN "bad_request"
    ELSE IF "Unauthorized" \notin TelegramErrors THEN "unhandled"
    ELSE IF raised = "Unauthorized" THEN "unauthorized"
    ELSE "retry"

\* a transport whose every answer counts as a success
SendSucceeded_Always(outcome) == TRUE

\* line 130: send_notification returns True only when a send returned
SendSucceeded(outcome) == outcome = "ok"

\* send_notification, one pass of the loop of lines 95-146, and when it
\* returns, lines 224-246 of process_notification_queue
WorkerSend(outcome) ==
    /\ worker.pc = "send"
    /\ LET n == worker.batch[worker.i]
           u == n.user_id
           h == Handler(outcome)
           ret == [outcome |-> outcome, id |-> n.id, tries |-> worker.attempt + 1,
                   was_active |-> users[u].is_active]
           failed == /\ queue' = SetStatus(queue, n.id, "failed", n.attempts + 1)
                     /\ worker' = [Advance(worker) EXCEPT
                                      !.counts = IF worker.i < Len(worker.batch)
                                                 THEN worker.counts ELSE @]
                     /\ lastSend' = ret
                     /\ UNCHANGED <<history, delivered>>
       IN  IF SendSucceeded(outcome)
           THEN /\ delivered' = IF outcome = "ok"
                                 THEN delivered \cup {[user_id |-> u,
                                         property_id |-> n.property_id, t |-> now]}
                                 ELSE delivered
                /\ queue' = SetStatus(queue, n.id, "sent", NoInt)
                /\ history' = RecordSent(history, u, n.property_id, now)
                /\ worker' = [Advance(worker) EXCEPT
                                 !.counts = IF worker.i < Len(worker.batch)
                                            THEN [worker.counts EXCEPT ![u] = @ + 1]
                                            ELSE @]
                /\ lastSend' = ret
                /\ UNCHANGED <<users, enqueued>>
           ELSE CASE h = "bad_request" ->
                       /\ failed
                       /\ UNCHANGED <<users, enqueued>>
                  [] h = "unauthorized" ->
                       /\ users' = [users EXCEPT ![u].is_active = FALSE]
                       /\ enqueued' = {}
                       /\ failed
                  [] h = "retry" ->
                       IF worker.attempt < RetryAttempts - 1
                       THEN /\ worker' = [worker EXCEPT !.attempt = @ + 1]
                            /\ lastSend' = NoSend
                            /\ UNCHANGED <<users, queue, history, delivered, enqueued>>
                       ELSE /\ failed
                            /\ UNCHANGED <<users, enqueued>>
                  [] h = "unhandled" ->
                       /\ failed
                       /\ UNCHANGED <<users, enqueued>>
    /\ lastEnq' = NoEnq
    /\ UNCHANGED <<now, storeVars, callers, prefs, capHits>>
    /\ UNCHANGED schedVars

NotifyTick ==
    /\ now + HoursPerTick <= MaxHours
    /\ now' = now + HoursPerTick
    /\ lastEnq' = NoEnq
    /\ lastSend' = NoSend
    /\ UNCHANGED <<storeVars, callers, users, prefs, queue, history, worker,
                   delivered, capHits, enqueued>>
    /\ UNCHANGED schedVars

InitNotifySpec(rows, prefs101, prefs102) ==
    /\ now = 0
    /\ properties = {r \in NotifyProperties : r.id \in rows}
    /\ next_id = 4
    /\ lastCall = NoCall
    /\ lastDups = NoDups
    /\ InitProxy(FALSE, << >>, "round_robin")
    /\ InitRun
    /\ ncalls = 0
    /\ callers = [p \in Procs |-> IdleCaller]
    /\ InitNotify(prefs101, prefs102)
    /\ InitScheduler

\* Matching and enqueueing while users change their preferences and the
\* worker drains the queue (the clock stands still).
InitQueue ==
    InitNotifySpec({1, 3}, PreferencesRow(PrefsDict(<<"utrecht", "Den Haag">>, 0)),
                   NoPrefs)

NextQueue ==
    \/ \E pid \in {1, 3} : AddMatched(pid)
    \/ \E p \in PrefChoices : SetPreferences(102, p)
    \/ \E b \in BOOL : ToggleNotifications(102, b)
    \/ WorkerPick
    \/ WorkerCheck
    \/ \E o \in {"ok", "BadRequest"} : WorkerSend(o)

SpecQueue == InitQueue /\ [][NextQueue]_vars

\* The delivery worker over time, with the users' settings left alone.
InitWorker ==
    InitNotifySpec({1, 2, 3}, PreferencesRow(PrefsDict(<<"utrecht">>, 0)),
                   PreferencesRow(PrefsDict(<<"Den Haag">>, 0)))

NextWorker ==
    \/ \E pid \in 1..3 : AddMatched(pid)
    \/ WorkerPick
    \/ WorkerCheck
    \/ \E o \in SendOutcomes : WorkerSend(o)
    \/ NotifyTick

SpecWorker == InitWorker /\ [][NextWorker]_vars

(***************************************************************************)
(* The two long-running loops and the stop signal: run_continuous of the   *)
(* scraper process (main.py) and run_continuously of the delivery worker   *)
(* as main_telegram.py starts it.  A behaviour follows one of the two      *)
(* processes.                                                              *)
(***************************************************************************)

\* main.py 378-379: an iteration of the while loop starts a scan cycle
ScraperStartCycle ==
    /\ scraper_loop.pc = "loop"
    /\ ~scraper_loop.stop_event
    /\ StartCycle

\* the cycle in progress, run_one_scan awaited at line 379
ScraperScanStep ==
    /\ scraper_loop.pc = "loop"
    /\ (ScanQueryUrlStep \/ ScanSourceCityStep)

\* main.py 428-433: a SIGINT or SIGTERM; stop_event.set() is evaluated as the
\* argument of create_task
ScraperSignal ==
    /\ scraper_loop.pc = "loop"
    /\ ~scraper_loop.stop_event
    /\ scraper_loop' = [scraper_loop EXCEPT !.stop_event = TRUE]
    /\ UNCHANGED <<now, storeVars, callers, notifyVars, query_urls, scan_history,
                   stop_after_no_result, sched, lastScan, prev, proxy_manager,
                   proxyLog, http, httpLog, notifier_main>>

\* main.py 378 and 383-386: the while test or the wait of the interval sees
\* the stop event and run_continuous returns
ScraperReturn ==
    /\ scraper_loop.pc = "loop"
    /\ sched.pc = "idle"
    /\ scraper_loop.stop_event
    /\ scraper_loop' = [scraper_loop EXCEPT !.pc = "returned"]
    /\ UNCHANGED <<now, storeVars, callers, notifyVars, query_urls, scan_history,
                   stop_after_no_result, sched, lastScan, prev, proxy_manager,
                   proxyLog, http, httpLog, notifier_main>>

\* the delivery task runs: run_continuously 312-313, its own event not set
NotifierRuns == notifier_main.task = "running" /\ ~notifier_main.loop_stop_event

NotifierEnqueue(pid) == notifier_main.task = "running" /\ AddMatched(pid)

NotifierPick == NotifierRuns /\ WorkerPick

NotifierCheck == notifier_main.task = "running" /\ WorkerCheck

NotifierSend(outcome) == notifier_main.task = "running" /\ WorkerSend(outcome)

\* the awaits of the delivery task: the wait of the interval (line 318), the
\* send (line 222) and the pause after a send (line 249). Nothing is awaited
\* between the pick and the processing mark, nor after a rate_limited mark
AtSuspensionPoint ==
    \/ worker.pc = "idle"
    \/ worker.pc = "send"
    \/ worker.pc = "check" /\ lastSend # NoSend

\* main_telegram.py 98-115: a signal sets the stop event of main, main wakes
\* from stop_event.wait() and cancels the delivery task, which gets
\* CancelledError at the await it is suspended in (except Exception of lines
\* 266 and 292 lets it pass, line 320 ends the task)
TelegramStop ==
    /\ notifier_main.task = "running"
    /\ AtSuspensionPoint
    /\ notifier_main' = [notifier_main EXCEPT !.stop_event = TRUE,
                                              !.task = "cancelled"]
    /\ UNCHANGED <<now, storeVars, callers, notifyVars, query_urls, scan_history,
                   stop_after_no_result, sched, lastScan, prev, proxy_manager,
                   proxyLog, http, httpLog, scraper_loop>>

InitStop ==
    /\ now = 0
    /\ lastCall = NoCall
    /\ lastDups = NoDups
    /\ InitProxy(FALSE, << >>, "round_robin")
    /\ http = IdleHttp
    /\ httpLog = NoRequests
    /\ ncalls = 0
    /\ callers = [p \in Procs |-> IdleCaller]
    /\ InitScheduler
    /\ \/ /\ InitLoops("loop", "off")
          /\ properties = {}
          /\ next_id = 1
          /\ InitNotify(PreferencesRow(PrefsDict(<<"utrecht">>, 0)), NoPrefs)
       \/ /\ InitLoops("off", "running")
          /\ properties = NotifyProperties
          /\ next_id = 4
          /\ InitNotify(PreferencesRow(PrefsDict(<<"utrecht">>, 0)),
                        PreferencesRow(PrefsDict(<<"Den Haag">>, 0)))

NextStop ==
    \/ ScraperStartCycle
    \/ ScraperScanStep
    \/ ScraperSignal
    \/ ScraperReturn
    \/ \E pid \in 1..3 : NotifierEnqueue(pid)
    \/ NotifierPick
    \/ NotifierCheck
    \/ \E o \in SendOutcomes : NotifierSend(o)
    \/ TelegramStop

SpecStop == InitStop /\ [][NextStop]_vars

\* The pick of one worker run, over every notification_queue table that five
\* enqueued (user, listing) pairs can have left behind: a pair has no row, or
\* a row created at hour 0 or HoursPerTick that is still pending or has
\* failed; user 101 may have blocked the bot's account (is_active) and user
\* 102 may have switched notifications off.
PickPairs == {<<101, 1>>, <<101, 2>>, <<101, 3>>, <<102, 1>>, <<102, 3>>}

PickRows ==
    {"none"} \cup ({"pending", "failed"} \X {0, HoursPerTick})

PickQueue(f) ==
    {[id |-> QueueId(k[1], k[2]), user_id |-> k[1], property_id |-> k[2],
      created_at |-> f[k][2], status |-> f[k][1],
      attempts |-> IF f[k][1] = "failed" THEN 1 ELSE 0]
        : k \in {x \in PickPairs : f[x] # "none"}}

InitPick ==
    /\ now = HoursPerTick
    /\ properties = NotifyProperties
    /\ next_id = 4
    /\ lastCall = NoCall
    /\ lastDups = NoDups
    /\ InitProxy(FALSE, << >>, "round_robin")
    /\ InitRun
    /\ ncalls = 0
    /\ callers = [p \in Procs |-> IdleCaller]
    /\ \E a, b \in BOOL :
          users = [u \in UserIds |->
                     [is_active |-> (u = 101 => a),
                      notification_enabled |-> (u = 102 => b)]]
    /\ prefs = [u \in UserIds |->
                  PreferencesRow(PrefsDict(<<"utrecht", "Den Haag">>, 0))]
    /\ \E f \in [PickPairs -> PickRows] : queue = PickQueue(f)
    /\ history = {}
    /\ worker = IdleWorker
    /\ delivered = {}
    /\ capHits = {}
    /\ enqueued = {}
    /\ lastEnq = NoEnq
    /\ lastSend = NoSend
    /\ InitScheduler

NextPick == WorkerPick

SpecPick == InitPick /\ [][NextPick]_vars

\* The match predicate on its own: one stored listing and the preferences
\* user 101 saved from the chat, both drawn from the sets below; the classes
\* are toggled last, after the other fields were saved.  User 102 has no
\* preferences row.  The scraper then enqueues the listing.
MatchListings ==
    {[CityListing("funda", "1", "u1", "Utrecht", 1500) EXCEPT
         !.neighborhood = "Centrum"],
     [CityListing("funda", "1", "u1", "Utrecht", 2500) EXCEPT
         !.rooms = 5, !.living_area = 120, !.property_type = "HOUSE"],
     [CityListing("funda", "1", "u1", "Utrecht", NoInt) EXCEPT
         !.rooms = NoInt, !.living_area = NoInt, !.property_type = NULL]}

MatchPrefs ==
    [cities : {<< >>, <<"">>, <<"utrecht">>, <<"Den Haag">>},
     min_price : {NoInt, 2000}, max_price : {NoInt, 0, 2000},
     min_rooms : {NoInt, 3}, max_rooms : {NoInt, 0, 3},
     property_type : {TypesNone, << >>, <<"apartment">>, <<"apartment", "house">>},
     min_area : {NoInt, 80}, max_area : {NoInt, 0, 80},
     neighborhood : {NULL, "centrum"}]

InitMatch ==
    /\ now = 0
    /\ \E l \in MatchListings : properties = {InsertedRow(1, WithScraperHash(l), 0)}
    /\ next_id = 2
    /\ lastCall = NoCall
    /\ lastDups = NoDups
    /\ InitProxy(FALSE, << >>, "round_robin")
    /\ InitRun
    /\ ncalls = 0
    /\ callers = [p \in Procs |-> IdleCaller]
    /\ \E p \in MatchPrefs, binding \in ListBindings :
          InitNotify(SavedRow(PreferencesRow([p EXCEPT !.property_type = TypesNone]),
                              p, binding),
                     NoPrefs)
    /\ InitScheduler

NextMatch == AddMatched(1)

SpecMatch == InitMatch /\ [][NextMatch]_vars

\* The match of one listing whose price_numeric, rooms, living_area and
\* neighborhood are each missing or known, against bounds that are unset, 0
\* or positive.
MissingListings ==
    {[CityListing("funda", "1", "u1", "Utrecht", price) EXCEPT
         !.rooms = rooms, !.living_area = area, !.neighborhood = nbh] :
       price \in {NoInt, 1500}, rooms \in {NoInt, 2}, area \in {NoInt, 50},
       nbh \in {NULL, "Centrum"}}

MissingPrefs ==
    [cities : {<<"utrecht">>},
     min_price : {NoInt, 0, 2000}, max_price : {NoInt, 0, 2000},
     min_rooms : {NoInt, 0}, max_rooms : {NoInt, 0, 3},
     property_type : {TypesNone},
     min_area : {NoInt, 0}, max_area : {NoInt, 0, 80},
     neighborhood : {NULL, "centrum"}]

InitMissing ==
    /\ now = 0
    /\ \E l \in MissingListings : properties = {InsertedRow(1, WithScraperHash(l), 0)}
    /\ next_id = 2
    /\ lastCall = NoCall
    /\ lastDups = NoDups
    /\ InitProxy(FALSE, << >>, "round_robin")
    /\ InitRun
    /\ ncalls = 0
    /\ callers = [p \in Procs |-> IdleCaller]
    /\ \E p \in MissingPrefs : InitNotify(PreferencesRow(p), NoPrefs)
    /\ InitScheduler

SpecMissing == InitMissing /\ [][NextMatch]_vars

(***************************************************************************)
(* Claims about the listing store                                          *)
(***************************************************************************)
RowsFor(props, l) == KeyRows(props, l) \cup HashRows(props, l)

\* C1: two save_listing calls in a row with the same payload: the second
\* returns is_new = False and adds no row; when the listing was not stored
\* before the first call, the first returned True and exactly one row holds it.
C1_UpsertIdempotent ==
    lastCall.repeat =>
        /\ lastCall.ret = "updated"
        /\ Cardinality(properties) = lastCall.rows
        /\ lastCall.prevFresh =>
              /\ lastCall.prevRet = "new"
              /\ Cardinality(RowsFor(properties, lastCall.l)) = 1

C1_Witness ==
    /\ lastCall.repeat
    /\ lastCall.prevFresh
    /\ lastCall.prevRet = "new"
    /\ lastCall.ret = "updated"
    /\ lastCall.l.source_id = NULL

\* C2: a listing whose hash equals that of a stored row with another natural
\* key is an UPDATE of a stored row (of that row when no natural-key row
\* exists), returns False and adds no row; no two rows share a hash.
C2_CrossKeyDedup ==
    /\ \A r1, r2 \in properties :
          r1.id # r2.id => r1.property_hash # r2.property_hash
    /\ (lastCall.ret # "none" /\ lastCall.hashRows \ lastCall.keyRows # {}) =>
          /\ lastCall.ret = "updated"
          /\ Cardinality(properties) = lastCall.rows
          /\ lastCall.found \in lastCall.hashRows \cup lastCall.keyRows
          /\ lastCall.keyRows = {} => lastCall.found \in lastCall.hashRows
          /\ \E r \in properties :
                /\ r.id = lastCall.found
                /\ r.price_numeric = lastCall.l.price_numeric
                /\ r.source_id = lastCall.l.source_id

C2_Witness ==
    /\ lastCall.ret = "updated"
    /\ lastCall.keyRows = {}
    /\ lastCall.hashRows # {}
    /\ lastCall.l.source_id # NULL
    /\ \E r \in properties : r.id = lastCall.found /\ r.source # lastCall.l.source

\* C3: two interleaved calls for the same new (source, source_id), both
\* having run their SELECT before either INSERT: one returns True, the other
\* returns False, and one row results.
BothSelectedFirst ==
    /\ \A p \in Procs : callers[p].pc = "returned" /\ callers[p].found = NoRow
    /\ SqlEq(callers[1].l.source, callers[2].l.source)
    /\ SqlEq(callers[1].l.source_id, callers[2].l.source_id)
    /\ ncalls = 2

C3_ConcurrentUpsert ==
    BothSelectedFirst =>
        /\ {callers[1].ret, callers[2].ret} = {"new", "updated"}
        /\ Cardinality(KeyRows(properties, callers[1].l)) = 1
(***************************************************************************)
(* Claims about the notification queue and the delivery worker             *)
(***************************************************************************)
\* C4: add_matched_properties_to_queue called again for a listing, with users
\* and preferences unchanged since the earlier call, adds no queue row; no
\* call changes or removes an existing row (status, attempts, created_at);
\* the queue never holds two rows for the same (user_id, property_id).
C4_EnqueueIdempotent ==
    /\ lastEnq.lost = {}
    /\ lastEnq.repeat => lastEnq.added = {}
    /\ \A e1, e2 \in queue :
          (e1.user_id = e2.user_id /\ e1.property_id = e2.property_id) => e1 = e2

\* a repeated call for a listing that has a row the worker already processed
\* and a row still pending
C4_Witness ==
    /\ lastEnq.repeat
    /\ \E e \in queue : e.property_id = lastEnq.pid /\ e.status = "sent"
    /\ \E e \in queue : e.property_id = lastEnq.pid /\ e.status = "pending"

\* deliveries to user u in the 24 hours up to and including t
DeliveredIn24h(u, t) ==
    {d \in delivered : d.user_id = u /\ d.t > t - DayHours /\ d.t <= t}

\* C5: an entry picked while the user's successful sends of the preceding 24
\* hours have reached MAX_PER_USER_PER_DAY is not sent (the worker never gets
\* to the send with the cap reached), an entry the cap check stopped is
\* rate_limited and stays so, and no user gets more than
\* MAX_PER_USER_PER_DAY deliveries within any 24 hours.
C5_DailyCap ==
    /\ worker.pc = "send" =>
          Cardinality(DeliveredIn24h(worker.batch[worker.i].user_id, now)) < MaxPerDay
    /\ \A c \in capHits :
          /\ \E e \in queue : /\ e.user_id = c.user_id
                              /\ e.property_id = c.property_id
                              /\ e.status = "rate_limited"
          /\ \A d \in delivered :
                ~(d.user_id = c.user_id /\ d.property_id = c.property_id)
    /\ \A u \in UserIds : \A d \in delivered :
          Cardinality(DeliveredIn24h(u, d.t)) <= MaxPerDay

\* one run in which a user got MAX_PER_USER_PER_DAY notifications and the
\* next match was rate limited, while the other user was still served
C5_Witness ==
    \E c \in capHits :
        /\ Cardinality({d \in delivered : d.user_id = c.user_id /\ d.t = c.t})
               = MaxPerDay
        /\ \E d \in delivered : d.user_id # c.user_id /\ d.t = c.t
        /\ worker.pc = "idle"
(***************************************************************************)
(* Claims about the scan cycle                                             *)
(***************************************************************************)
Fetched == lastScan.action \in {"raised", "scanned"}

\* C6: a query URL or (source, city) whose last recorded scan is less than
\* min_interval(source) ago (the configured value of the source, else the
\* scraper's interval) is not fetched by run_one_scan.
C6_IntervalGate ==
    Fetched =>
        \/ lastScan.last = NoInt
        \/ lastScan.t - lastScan.last >=
              (IF lastScan.source = "funda" THEN FundaMinInterval
               ELSE IF lastScan.source = "pararius" THEN ParariusMinInterval
               ELSE Interval)

\* a (source, city) of a source without configured min_interval is left out
\* because its last scan is too recent, and a query URL likewise
C6_Witness ==
    /\ lastScan.action = "not_due"
    /\ lastScan.source = "regioutrecht"
    /\ lastScan.last # NoInt
    /\ \E id \in DOMAIN query_urls :
          /\ query_urls[id].last_scan_time # NoInt
          /\ now - query_urls[id].last_scan_time < SourceMinInterval(query_urls[id].source)

\* C7: with stop_after_no_result set, once a stop condition fired for a
\* source in the cycle no later query URL of the source is fetched, and a
\* query URL is passed over for its source only when a stop condition fired
\* for that very source (other sources are still scanned).
C7_PaginationStop ==
    (stop_after_no_result /\ lastScan.kind = "url") =>
        /\ Fetched => ~lastScan.prev.stop
        /\ lastScan.action = "skipped_source" => lastScan.prev.stop

\* the redirect of the second pararius page stopped the source, its third
\* page was passed over and the funda query URL is scanned all the same
C7_Witness ==
    /\ stop_after_no_result
    /\ lastScan.kind = "url"
    /\ lastScan.source = "funda"
    /\ lastScan.action = "scanned"
    /\ prev["pararius"].outcome = "skipped_source"
    /\ prev["pararius"].stop

\* C8 as stated: after a query URL whose fetch or parse raised, the next
\* query URL of the same source is still scanned when due, and a query URL
\* is never passed over because of another source.
C8_ExceptionIsolation ==
    lastScan.kind = "url" =>
        /\ lastScan.prev.outcome = "raised" => lastScan.action # "skipped_source"
        /\ lastScan.prev.outcome = "none" => lastScan.action # "skipped_source"

\* C8 amended: a raising query URL counts as an empty page: the next query
\* URL of the same source is passed over exactly when the raising URL was
\* the first one scanned for the source in the cycle or stop_after_no_result
\* is set; a query URL is never passed over because of another source.
C8_ExceptionIsolationAmended ==
    lastScan.kind = "url" =>
        /\ lastScan.prev.outcome = "raised" =>
              (lastScan.action = "skipped_source"
                  <=> (lastScan.prev.first \/ stop_after_no_result))
        /\ lastScan.prev.outcome \in {"none", "not_due"} =>
              lastScan.action # "skipped_source"

\* the second pararius page raised, stop_after_no_result is off, and the
\* third page is fetched
C8_Witness ==
    /\ ~stop_after_no_result
    /\ lastScan.kind = "url"
    /\ lastScan.prev.outcome = "raised"
    /\ ~lastScan.prev.first
    /\ Fetched

\* C9: a scan that failed (fetch or parse raised) still leaves a
\* scan_history row of this cycle for its (source, key), with new = 0 and
\* total = 0; a scan that succeeded stored its new listings.
C9_HistoryOnFailure ==
    /\ lastScan.action = "raised" =>
          \E h \in scan_history :
              /\ h.source = lastScan.source
              /\ h.city = lastScan.key
              /\ h.scan_time = lastScan.t
              /\ h.new_listings_count = 0
              /\ h.total_listings_count = 0
    /\ lastScan.action = "scanned" =>
          \A id \in lastScan.newIds : \E r \in properties : r.id = id

\* C10: add_matched_properties_to_queue is called, before the scan of the
\* URL ends, with the row id of every listing save_listing reported as new.
C10_FanOutTrigger ==
    lastScan.action = "scanned" => lastScan.newIds \subseteq lastScan.enqIds

(***************************************************************************)
(* Claims about the delivery worker's queue                                *)
(***************************************************************************)
\* the queue row a fetched notification stands for
RowOf(n) == CHOOSE e \in queue : e.id = n.id

\* pending rows of users who are active and have notifications on
PickCandidates ==
    {e \in queue : /\ e.status = "pending"
                   /\ users[e.user_id].is_active
                   /\ users[e.user_id].notification_enabled}

PickRule(b) ==
    /\ Len(b) <= BatchSize
    /\ \A i \in 1..Len(b) :
          /\ \E e \in PickCandidates : e.id = b[i].id
          /\ \A j \in 1..Len(b) :
                /\ i # j => b[i].id # b[j].id
                /\ i < j => RowOf(b[i]).created_at <= RowOf(b[j]).created_at
          /\ \A e \in PickCandidates :
                (\A j \in 1..Len(b) : b[j].id # e.id)
                    => RowOf(b[i]).created_at <= e.created_at
    /\ Len(b) < BatchSize => \A e \in PickCandidates : \E i \in 1..Len(b) : b[i].id = e.id

\* C11: the batch a worker run picks has at most BatchSize entries, all of
\* them pending and of users who are active with notifications on, in
\* created_at order; no such entry left out is older than one in the batch,
\* and entries of disabled users take no slot of the batch.
C11_PickRule ==
    [][worker.pc = "idle" /\ worker'.pc = "check" => PickRule(worker'.batch)]_vars

C11_Witness ==
    /\ worker.pc = "check"
    /\ worker.i = 1
    /\ Len(worker.batch) = BatchSize
    /\ RowOf(worker.batch[1]).created_at < RowOf(worker.batch[BatchSize]).created_at
    /\ \E e \in PickCandidates : \A j \in 1..BatchSize : worker.batch[j].id # e.id
    /\ \E e \in queue : e.status = "pending" /\ ~users[e.user_id].notification_enabled
    /\ \E e \in queue : e.status = "failed" /\ users[e.user_id].is_active

Statuses == {"pending", "processing", "sent", "failed", "rate_limited"}

StatusSteps ==
    {<<"pending", "processing">>, <<"processing", "sent">>,
     <<"processing", "failed">>, <<"pending", "rate_limited">>}

\* C12: a queue row is created as pending; its status is always one of
\* pending, processing, sent, failed, rate_limited; every change of status is
\* pending -> processing, processing -> sent, processing -> failed, or the
\* picked row the worker is at -> rate_limited; a sent row stays sent.
C12_StatusMachine ==
    [][\A f \in queue' :
          /\ f.status \in Statuses
          /\ (\A e \in queue : e.id # f.id) => f.status = "pending"
          /\ \A e \in queue :
                e.id = f.id /\ e.status # f.status =>
                    /\ <<e.status, f.status>> \in StatusSteps
                    /\ e.status # "sent"
                    /\ f.status = "rate_limited" =>
                          /\ worker.pc = "check"
                          /\ worker.batch[worker.i].id = e.id]_vars

C12_Witness ==
    /\ \E e \in queue : e.status = "sent" /\ lastEnq.pid = e.property_id
    /\ \E e \in queue : e.status = "failed"
    /\ \E e \in queue : e.status = "rate_limited"

\* C13: a row that ended a worker run as failed with fewer attempts than the
\* retry cap is still eligible for the pick of a later run (its user being
\* active with notifications on).
C13_FailedRetry ==
    \A e \in queue :
        (/\ e.status = "failed"
         /\ e.attempts < RetryAttempts
         /\ users[e.user_id].is_active
         /\ users[e.user_id].notification_enabled)
            => e \in EligiblePending

\* the user a queue row id belongs to
UserOf(id) == id[1]

\* C14: when the transport answers a send with BadRequest, or with the error
\* of a user who blocked the bot (Forbidden), send_notification makes no
\* further attempt and the row ends failed; the user's is_active flag is
\* turned off if and only if the error was the blocked-bot one.
C14_NonRetryableErrors ==
    lastSend.outcome \in {"BadRequest", "Forbidden"} =>
        /\ lastSend.tries = 1
        /\ \E e \in queue : e.id = lastSend.id /\ e.status = "failed"
        /\ (lastSend.was_active /\ ~users[UserOf(lastSend.id)].is_active)
              <=> lastSend.outcome = "Forbidden"

\* C15: for one picked row send_notification makes at most RetryAttempts
\* attempts; when the last of them failed with a transient error the row is
\* marked failed, and when an attempt succeeded the row is marked sent and
\* the worker makes no further attempt for it.
C15_RetryBound ==
    /\ worker.pc = "send" => worker.attempt < RetryAttempts
    /\ lastSend.outcome \in {"ok", "NetworkError"} =>
          /\ lastSend.tries <= RetryAttempts
          /\ ~(worker.pc = "send" /\ worker.batch[worker.i].id = lastSend.id)
          /\ \E e \in queue :
                /\ e.id = lastSend.id
                /\ e.status = IF lastSend.outcome = "ok" THEN "sent" ELSE "failed"

C15_Witness ==
    /\ lastSend.outcome = "NetworkError"
    /\ \E e \in queue : e.id = lastSend.id /\ e.status = "failed"
    /\ \E e \in queue : e.id # lastSend.id /\ e.status = "sent"

\* the transport accepted a message for the (user, listing) pair
Accepted(u, pid) ==
    \E d \in delivered : d.user_id = u /\ d.property_id = pid

TheListing == CHOOSE r \in properties : r.id = 1
ThePrefs == prefs[101]
Enqueued101 == HasEntry(queue, 101, 1)
MatchRan == lastEnq.pid = 1

\* C17: a user whose cities are unset or empty (or who has no preferences
\* row) gets no queue row for any listing, whatever the other fields are.
C17_EmptyCitiesNeverMatch ==
    \A e \in queue :
        /\ prefs[e.user_id].present
        /\ prefs[e.user_id].cities # CitiesNull
        /\ prefs[e.user_id].cities # {}

C17_Witness ==
    /\ MatchRan
    /\ queue = {}
    /\ ThePrefs.cities \in {CitiesNull, {}}
    /\ ThePrefs.min_price = NoInt /\ ThePrefs.max_price = NoInt
    /\ ThePrefs.min_rooms = NoInt /\ ThePrefs.max_rooms = NoInt
    /\ ThePrefs.min_area = NoInt /\ ThePrefs.max_area = NoInt
    /\ ThePrefs.property_type = NULL /\ ThePrefs.neighborhood = NULL

RefMin(min, v) == min # NoInt => (v # NoInt /\ v >= min)
RefMax(max, v) == (max # NoInt /\ max # 0) => (v # NoInt /\ v <= max)

Fields == {"cities", "min_price", "max_price", "min_rooms", "max_rooms",
           "min_area", "max_area", "property_type", "neighborhood"}

\* the line of the match predicate that belongs to a preference field
RefConj(f) ==
    CASE f = "cities" ->
            /\ ThePrefs.cities # CitiesNull
            /\ PyUpper(TheListing.city) \in ThePrefs.cities
      [] f = "min_price" -> RefMin(ThePrefs.min_price, TheListing.price_numeric)
      [] f = "max_price" -> RefMax(ThePrefs.max_price, TheListing.price_numeric)
      [] f = "min_rooms" -> RefMin(ThePrefs.min_rooms, TheListing.rooms)
      [] f = "max_rooms" -> RefMax(ThePrefs.max_rooms, TheListing.rooms)
      [] f = "min_area" -> RefMin(ThePrefs.min_area, TheListing.living_area)
      [] f = "max_area" -> RefMax(ThePrefs.max_area, TheListing.living_area)
      [] f = "property_type" ->
            ThePrefs.property_type # NULL =>
                /\ TheListing.property_type # NULL
                /\ TheListing.property_type = ThePrefs.property_type
      [] f = "neighborhood" ->
            ThePrefs.neighborhood # NULL =>
                /\ TheListing.neighborhood # NULL
                /\ ILikeContains(TheListing.neighborhood, ThePrefs.neighborhood)

\* every other line of the predicate holds
RefOthers(f) ==
    /\ users[101].is_active
    /\ users[101].notification_enabled
    /\ ThePrefs.present
    /\ \A g \in Fields \ {f} : RefConj(g)

\* the listing's value a maximum is compared with
MaxValue(f) ==
    CASE f = "max_price" -> TheListing.price_numeric
      [] f = "max_rooms" -> TheListing.rooms
      [] f = "max_area" -> TheListing.living_area

\* C18: max_price = 0, max_rooms = 0 and max_area = 0 each set no upper
\* bound: a listing that meets every other line of the predicate is enqueued
\* however large its price, rooms or living area; a maximum other than 0
\* keeps out the listings above it.
C18_ZeroMaxUnbounded ==
    MatchRan =>
        \A f \in {"max_price", "max_rooms", "max_area"} :
            /\ ThePrefs[f] = 0 => (Enqueued101 <=> RefOthers(f))
            /\ (ThePrefs[f] > 0 /\ MaxValue(f) > ThePrefs[f]) => ~Enqueued101

C18_Witness ==
    /\ MatchRan
    /\ Enqueued101
    /\ ThePrefs.max_price = 0 /\ TheListing.price_numeric = 2500
    /\ ThePrefs.max_rooms = 0 /\ TheListing.rooms = 5
    /\ ThePrefs.max_area = 0 /\ TheListing.living_area = 120

\* the user's value of a preference field is NULL
IsNullField(f) ==
    CASE f = "cities" -> ThePrefs.cities = CitiesNull
      [] f \in {"property_type", "neighborhood"} -> ThePrefs[f] = NULL
      [] OTHER -> ThePrefs[f] = NoInt

\* C19: for every preference field (cities, min/max price, rooms and area,
\* property type, neighborhood), a user whose value of the field is NULL is
\* enqueued exactly when the other lines of the predicate hold.
C19_NullNoConstraint ==
    MatchRan =>
        \A f \in Fields : IsNullField(f) => (Enqueued101 <=> RefOthers(f))

\* C19 amended: the same for every field but cities; a user whose cities are
\* NULL is not enqueued.
C19_NullNoConstraintAmended ==
    MatchRan =>
        /\ \A f \in Fields \ {"cities"} :
              IsNullField(f) => (Enqueued101 <=> RefOthers(f))
        /\ IsNullField("cities") => ~Enqueued101

C19_Witness ==
    /\ MatchRan
    /\ Enqueued101
    /\ \A f \in {"min_price", "min_rooms", "max_rooms", "min_area",
                  "property_type", "neighborhood"} : IsNullField(f)
    /\ ThePrefs.max_price = 2000 /\ ThePrefs.max_area = 80

\* the listing's class is one of the classes the user selected, or the user
\* selected none
ClassOk ==
    \/ ThePrefs.classes = TypesNone
    \/ ThePrefs.classes = << >>
    \/ /\ TheListing.property_type # NULL
       /\ PyLower(TheListing.property_type) \in SeqToSet(ThePrefs.classes)

\* C20: the listing passes the property-class line of the predicate exactly
\* when the user's set of classes is empty or unset or holds the listing's
\* class.
C20_ClassMembership ==
    MatchRan => (Enqueued101 <=> (RefOthers("property_type") /\ ClassOk))

(***************************************************************************)
(* Claims about content hashes, duplicates and re-scrapes                  *)
(***************************************************************************)
\* the components the content hash is specified over
HashTuple(l) == <<l.url, l.address, l.source_id, l.city>>

\* C21: two listings handed to save_listing with the same (url, address,
\* source_id, city) carry the same property_hash, whatever their other
\* fields, and two that differ in a component carry different hashes.
C21_ContentHashFunction ==
    \A p, q \in Procs :
        (callers[p].pc # "idle" /\ callers[q].pc # "idle") =>
            (HashTuple(callers[p].l) = HashTuple(callers[q].l)
                <=> ListingHash(callers[p].l) = ListingHash(callers[q].l))


\* the stored rows that carried the hash of the last upserted listing when
\* the call started and belong to another source
OtherSourceTwins ==
    {r \in properties : /\ lastCall # NoCall
                         /\ r.id \in lastCall.hashRows
                         /\ r.source # lastCall.l.source}

\* C22: after L1 (source a) and then L2 (source b # a, same content hash,
\* same address) were upserted without error, find_potential_duplicates(0.8)
\* returns exactly one pair for that hash, with source_1 < source_2 the two
\* sources.
C22_CrossSourceDuplicates ==
    (/\ lastDups.threshold = 80
     /\ lastCall # NoCall
     /\ lastCall.ret # "error"
     /\ OtherSourceTwins # {}) =>
        \E pr \in lastDups.pairs :
            /\ pr.property_hash = ListingHash(lastCall.l)
            /\ {pr.source_1, pr.source_2}
                    = {lastCall.l.source} \cup {r.source : r \in OtherSourceTwins}
            /\ TextLess(pr.source_1, pr.source_2)
            /\ \A other \in lastDups.pairs :
                    other.property_hash = pr.property_hash => other = pr

\* C23: no pair returned by find_potential_duplicates has the same source on
\* both sides, whatever the stored rows and the threshold.
C23_NoSameSourcePairs ==
    \A pr \in lastDups.pairs : pr.source_1 # pr.source_2

\* the query ran over a table holding two rows of one source and rows of two
\* sources with the same address
C23_Witness ==
    /\ lastDups # NoDups
    /\ \E a, b \in properties : a.id # b.id /\ a.source = b.source
    /\ \E a, b \in properties :
            /\ TextLess(a.source, b.source)
            /\ AddressClose(a.address, b.address, lastDups.threshold)

\* the rows that, when the last call started, matched its listing by content
\* hash only (not by (source, source_id))
HashOnlyRows(call) == call.hashRows \ call.keyRows

\* C24: a save_listing call whose listing matches one stored row by
\* (source, source_id) and a different stored row by content hash updates the
\* natural-key row, leaves the hash row as it was and returns without error.
C24_KeyBeatsHash ==
    [][(/\ ncalls' = ncalls + 1
        /\ lastCall'.keyRows # {}
        /\ HashOnlyRows(lastCall') # {}) =>
            /\ lastCall'.ret = "updated"
            /\ lastCall'.found \in lastCall'.keyRows
            /\ \A r \in properties :
                    r.id \in HashOnlyRows(lastCall') => r \in properties']_vars

\* C25: a save_listing call that updates a stored row leaves every stored
\* row's date_scraped as it was written at INSERT.
C25_FirstScrapedPreserved ==
    [][(ncalls' = ncalls + 1 /\ lastCall'.ret = "updated") =>
            \A r \in properties :
                \E q \in properties' :
                    q.id = r.id /\ q.date_scraped = r.date_scraped]_vars

\* the step is save_listing(L') right after a successful save_listing(L) with
\* the same (source, source_id), a source_id that is set, and another price
RescrapeStep ==
    /\ ncalls' = ncalls + 1
    /\ lastCall.ret \in {"new", "updated"}
    /\ lastCall'.l.source = lastCall.l.source
    /\ lastCall'.l.source_id = lastCall.l.source_id
    /\ lastCall'.l.source_id # NULL
    /\ lastCall'.l.price_numeric # lastCall.l.price_numeric

KeyOf(props, l) ==
    {r \in props : r.source = l.source /\ r.source_id = l.source_id}

\* C26: save_listing(L') right after save_listing(L), same (source,
\* source_id), another price: the call returns is_new = false, and the table
\* holds exactly one row for the key, whose price_numeric is that of L'.
C26_UpsertInPlace ==
    [][RescrapeStep =>
            /\ lastCall'.ret = "updated"
            /\ Cardinality(KeyOf(properties', lastCall'.l)) = 1
            /\ \A r \in KeyOf(properties', lastCall'.l) :
                    r.price_numeric = lastCall'.l.price_numeric]_vars

\* the same, for calls whose listings match no stored row of another key by
\* content hash
C26_UpsertInPlace_NoTwin ==
    [][(/\ RescrapeStep
        /\ HashOnlyRows(lastCall) = {}
        /\ HashOnlyRows(lastCall') = {}) =>
            /\ lastCall'.ret = "updated"
            /\ Cardinality(KeyOf(properties', lastCall'.l)) = 1
            /\ \A r \in KeyOf(properties', lastCall'.l) :
                    r.price_numeric = lastCall'.l.price_numeric]_vars

(* Claims about the scan cycle *)
\* the id of the query URL the last step handled
LastQueryId == CHOOSE id \in DOMAIN query_urls : QueryUrlKey(id) = lastScan.key

\* the last step fetched a query URL whose response came from another URL
Redirected ==
    /\ lastScan.kind = "url"
    /\ lastScan.action = "scanned"
    /\ ~SitePage(query_urls[LastQueryId].queryurl).final_same

\* the scan of the last step is in scan_history and in the query URL's
\* last_scan_time
Recorded ==
    /\ \E h \in scan_history :
            /\ h.source = lastScan.source
            /\ h.city = lastScan.key
            /\ h.scan_time = lastScan.t
            /\ h.new_listings_count = lastScan.new
            /\ h.total_listings_count = lastScan.total
    /\ query_urls[LastQueryId].last_scan_time = lastScan.t

C28_ScanOrder ==
    /\ (lastScan.kind = "url" /\ Fetched) => lastScan.prev.id < LastQueryId
    /\ lastScan.kind = "url" =>
            (sched.pc = "urls" \/ (sched.pc = "cities" /\ sched.cpos = 1))
    /\ lastScan.kind = "city" => sched.pc # "urls"

\* the funda query URL (id 2) is fetched as the last query URL of the cycle,
\* after the pararius ones up to id 4 were fetched; the city pairs follow
C28_Witness ==
    /\ lastScan.kind = "url"
    /\ Fetched
    /\ lastScan.source = "funda"
    /\ prev["pararius"].id = 4
    /\ prev["pararius"].fetched
    /\ sched.pc = "cities"
    /\ sched.cpos = 1

(* Claims about the proxy pool *)
Health(p) == proxy_manager.proxy_health[p]

\* C29: a proxy is unhealthy once it had MaxProxyFailures failures in a row,
\* and a proxy that never had that many failures in a row (a success came
\* in between) is healthy.
C29_HealthThreshold ==
    \A p \in DOMAIN proxy_manager.proxy_health :
        /\ proxyLog.run[p] >= MaxProxyFailures => ~Health(p).healthy
        /\ proxyLog.longest[p] < MaxProxyFailures => Health(p).healthy

\* C30: the proxy get_proxy returns and every proxy a request of a scan went
\* through were healthy in the pool when the fetch drew its proxy; with no
\* healthy proxy no proxy is drawn and none is used.
C30_OnlyHealthyUsed ==
    /\ proxyLog.drawn # NULL => proxyLog.drawn \in proxyLog.healthy
    /\ proxyLog.used \subseteq proxyLog.healthy
    /\ (proxyLog.outcome # "none" /\ proxyLog.healthy = {}) =>
            (proxyLog.drawn = NULL /\ proxyLog.used = {})

(* Claims about the fetcher *)
\* C31: when every request of a get call, the first one and all
\* MaxAntibotRetries retries, met an anti-bot body, the call ends with an
\* error and returns no response.
C31_AntiBotExhaustion ==
    (/\ http.pc # "loop"
     /\ httpLog.requests = MaxAntibotRetries + 1
     /\ httpLog.allAntiBot) => http.pc = "raised"

CleanDays == 30    \* clean_old_notifications(days = 30)

\* DELETE FROM notification_queue WHERE status IN ('sent', 'failed') AND
\* created_at < NOW() - INTERVAL 'days days'
CleanOldNotifications(q, days, t) ==
    {e \in q : ~(e.status \in {"sent", "failed"}
                 /\ e.created_at < t - days * DayHours)}

\* run_once 285-286 and the admin command: the DELETE runs, or the statement
\* raises (its placeholder stands inside a quoted literal) and nothing is
\* deleted
CleanOld ==
    /\ \E raised \in BOOLEAN :
          queue' = IF raised THEN queue
                   ELSE CleanOldNotifications(queue, CleanDays, now)
    /\ lastEnq' = NoEnq
    /\ lastSend' = NoSend
    /\ UNCHANGED <<now, storeVars, callers, users, prefs, history, worker,
                   delivered, capHits, enqueued>>
    /\ UNCHANGED schedVars

\* more than CleanDays pass at once
LongWait ==
    /\ now <= MaxHours
    /\ now' = now + (CleanDays + 1) * DayHours
    /\ lastEnq' = NoEnq
    /\ lastSend' = NoSend
    /\ UNCHANGED <<storeVars, callers, users, prefs, queue, history, worker,
                   delivered, capHits, enqueued>>
    /\ UNCHANGED schedVars

InitBacklog ==
    InitNotifySpec({1, 2}, PreferencesRow(PrefsDict(<<"utrecht">>, 0)), NoPrefs)

NextBacklog ==
    \/ \E pid \in 1..2 : AddMatched(pid)
    \/ \E b \in BOOLEAN : ToggleNotifications(101, b)
    \/ WorkerPick
    \/ WorkerCheck
    \/ \E o \in {"ok", "BadRequest"} : WorkerSend(o)
    \/ NotifyTick
    \/ LongWait
    \/ CleanOld

SpecBacklog == InitBacklog /\ [][NextBacklog]_vars

(* Claims about the stop signal *)

\* a loop of either process has a cycle in progress
ScraperCycleInProgress == sched.pc # "idle"

DeliveryCycleInProgress == worker.pc # "idle"

\* C33: in both loops, once the stop event is set no new cycle is started,
\* and a loop that has ended (returned, or its task ended) has no cycle left
\* in progress: the cycle that was running was completed first.
C33_StopSignal ==
    /\ [](scraper_loop.pc = "returned" => ~ScraperCycleInProgress)
    /\ [](notifier_main.task = "cancelled" => ~DeliveryCycleInProgress)
    /\ [][(scraper_loop.stop_event /\ ~ScraperCycleInProgress)
             => ~ScraperCycleInProgress']_vars
    /\ [][(notifier_main.stop_event /\ ~DeliveryCycleInProgress)
             => ~DeliveryCycleInProgress']_vars

LastQueryUrl ==
    query_urls[CHOOSE id \in DOMAIN query_urls : QueryUrlKey(id) = lastScan.key].queryurl

\* the stored rows of the listings whose adapter finds no city (pararius)
NoCityRows == {r \in properties : r.source = "pararius"}

DeliveredPairs == {QueueId(d.user_id, d.property_id) : d \in delivered}

Selectable ==
    {b[i].id : i \in 1..Cardinality(EligiblePending),
               b \in PendingBatches(Cardinality(queue))}

\* C37: rate_limited is terminal for today only: a rate_limited entry of an
\* enabled user whose count of the last 24 hours is below the cap again is
\* one a worker run can pick, so that it is sent or failed later on.
C37_RateLimitedReopens ==
    \A n \in queue :
        (/\ n.status = "rate_limited"
         /\ users[n.user_id].is_active
         /\ users[n.user_id].notification_enabled
         /\ HistoryCount(n.user_id) < MaxPerDay)
            => n.id \in Selectable

\* the user gets notifications
Subscribed(u) == users[u].is_active /\ users[u].notification_enabled

\* the entries of the batch a run has picked and not yet dealt with
InFlight ==
    IF worker.pc = "idle" THEN {}
    ELSE {worker.batch[i].id : i \in worker.i..Len(worker.batch)}

\* a run picks its batch in this step
PickStep == worker.pc = "idle" /\ worker'.pc = "check"

CreatedAt(id) == (CHOOSE e \in queue : e.id = id).created_at

C39_NoSendToDeactivated ==
    lastSend.outcome # "none" => Subscribed(lastSend.id[1])

(* Claims about a listing with missing attributes *)

\* the user sets no constraint on a numeric attribute: no minimum or one
\* that every value meets, and no maximum
Unconstrained(min, max) == min \in {NoInt, 0} /\ max \in {NoInt, 0}

\* the range line of the predicate for a value that may be missing
RangeOrMissing(min, max, v) ==
    IF v = NoInt THEN Unconstrained(min, max)
    ELSE RefMin(min, v) /\ RefMax(max, v)

\* C40: a listing whose price_numeric, rooms, living_area or neighborhood is
\* missing matches a user exactly when the user sets no constraint on that
\* attribute (the other lines of the predicate holding); a minimum of 0
\* counts as no constraint.
C40_MissingAttribute ==
    MatchRan =>
        (Enqueued101 <=>
            /\ users[101].is_active
            /\ users[101].notification_enabled
            /\ ThePrefs.present
            /\ RefConj("cities")
            /\ RefConj("property_type")
            /\ RangeOrMissing(ThePrefs.min_price, ThePrefs.max_price,
                              TheListing.price_numeric)
            /\ RangeOrMissing(ThePrefs.min_rooms, ThePrefs.max_rooms, TheListing.rooms)
            /\ RangeOrMissing(ThePrefs.min_area, ThePrefs.max_area,
                              TheListing.living_area)
            /\ IF TheListing.neighborhood = NULL THEN ThePrefs.neighborhood = NULL
               ELSE RefConj("neighborhood"))

====
